---- MODULE Spec2Model ----
(***************************************************************************)
(* Municipal Value-Score System: the portfolio allocator                   *)
(* (governance_agent.py), the resource ledger (context.py, database.py),   *)
(* the scheduler family (scheduling_agent.py) and the human confirmation   *)
(* workflow (confirmation_cli.py), modelled over the SQLite tables they    *)
(* share.                                                                  *)
(*                                                                         *)
(* Representation: money is in dollars, scores are in thousandths          *)
(* (0.7 is 700), dates are day numbers, SQL NULL is NULL (-1) in numeric   *)
(* columns and "NULL" in text columns.                                     *)
(***************************************************************************)
EXTENDS Integers, Sequences, FiniteSets, TLC

\* ------------------------------------------------------------------------
\* Bounds of the model
\* ------------------------------------------------------------------------
\* planning horizon in weeks (CITY_PROFILE has 12; scaled down)
Horizon == 2
\* rows of project_candidates the formation agent may create
MaxProjects == 1
\* rows of portfolio_decisions the governance agent may insert
MaxDecisions == 2
\* rows of schedule_tasks save_schedule may have inserted
MaxTasks == 1
\* days past a confirmation deadline the clock is observed at
MaxLate == 1
\* project candidates a tiered selection is run over
MaxCandidates == 3
\* approved projects a scheduler is selected for
MaxApproved == 21
\* a release is not started once some slot is further below zero than this
MaxDebt == 0
\* the largest district service ratio of the dense range, in thousandths
MaxRatio == 2000
\* the largest project_count of a district_allocations row
MaxProjectCount == 4
\* weeks of the ledger two interleaved runs work on
RaceHorizon == 3
\* weeks of the ledger the schedulers are compared on
LongHorizon == 7

\* ------------------------------------------------------------------------
\* Configuration (config.py)
\* ------------------------------------------------------------------------
ScoreScale == 1000
NULL == -1

quarterly_budget == 75000000
require_confirmation_cost == 10000000
require_confirmation_safety == 700
confirmation_timeout_days == 14
defer_threshold == 2
\* GOVERNANCE_CONFIG caps, in percent of the total budget
mandate_budget_cap == 30
urgent_critical_cap == 20

ResourceTypes == {"water_crew", "electrical_crew", "construction_crew", "general_crew"}

RESOURCE_CAPACITIES ==
    [t \in ResourceTypes |->
        CASE t = "water_crew" -> 3
          [] t = "electrical_crew" -> 2
          [] t = "construction_crew" -> 5
          [] t = "general_crew" -> 4]

CREW_MAPPING(category) ==
    CASE category = "Water" -> "water_crew"
      [] category = "Health" -> "electrical_crew"
      [] category = "Disaster Management" -> "construction_crew"
      [] category = "Infrastructure" -> "construction_crew"
      [] category = "Recreation" -> "general_crew"
      [] category = "Education" -> "general_crew"
      [] OTHER -> "general_crew"

TIER_VALUES_safety(tier) ==
    CASE tier = "none" -> 0
      [] tier = "moderate" -> 400
      [] tier = "severe" -> 700
      [] tier = "critical" -> 1000

TIER_VALUES_mandate(tier) ==
    CASE tier = "none" -> 0
      [] tier = "advisory" -> 300
      [] tier = "required" -> 700
      [] tier = "court_ordered" -> 1000

\* max(floor, e^(-0.02 * days)) in thousandths, tabulated for the
\* urgency_days values of the issue table below
score_urgency(days) ==
    CASE days = 7 -> 869
      [] days = 14 -> 756
      [] days = 21 -> 657
      [] days = 30 -> 549
      [] days = 45 -> 407
      [] days = 90 -> 165
      [] OTHER -> 100

\* ------------------------------------------------------------------------
\* Seeded input tables (database.py)
\* ------------------------------------------------------------------------
districts ==
    (1 :> 450000) @@ (2 :> 380000) @@ (3 :> 320000) @@ (4 :> 280000) @@
    (5 :> 420000) @@ (6 :> 350000) @@ (7 :> 150000) @@ (8 :> 150000)

RECURSIVE SumCounts(_, _)
SumCounts(count, ds) ==
    IF ds = {} THEN 0
    ELSE LET d == CHOOSE x \in ds : TRUE
         IN  count[d] + SumCounts(count, ds \ {d})

RECURSIVE SumPopulation(_)
SumPopulation(ds) ==
    IF ds = {} THEN 0
    ELSE LET d == CHOOSE x \in ds : TRUE
         IN  districts[d] + SumPopulation(ds \ {d})

\* issues joined with issue_signals.  Rows 1, 2, 3, 8 and 10 are rows of
\* seed_sample_issues; rows 11 and 12 are inputs of the shape
\* seed_large_scenario draws: 11 has no safety concern and a cost exactly at
\* the confirmation threshold, 12 is urgent and severe without a mandate and
\* costs exactly the urgent-critical cap.
issues ==
    (1 :> [category |-> "Water", district_id |-> 1, safety_tier |-> "critical",
           mandate_tier |-> "court_ordered", estimated_cost |-> 45000000,
           urgency_days |-> 7]) @@
    (2 :> [category |-> "Health", district_id |-> 2, safety_tier |-> "critical",
           mandate_tier |-> "required", estimated_cost |-> 12000000,
           urgency_days |-> 14]) @@
    (3 :> [category |-> "Disaster Management", district_id |-> 4,
           safety_tier |-> "severe", mandate_tier |-> "none",
           estimated_cost |-> 60000000, urgency_days |-> 30]) @@
    (8 :> [category |-> "Infrastructure", district_id |-> 1,
           safety_tier |-> "severe", mandate_tier |-> "required",
           estimated_cost |-> 8000000, urgency_days |-> 21]) @@
    (10 :> [category |-> "Water", district_id |-> 3, safety_tier |-> "moderate",
            mandate_tier |-> "advisory", estimated_cost |-> 5500000,
            urgency_days |-> 45]) @@
    (11 :> [category |-> "Housing", district_id |-> 5, safety_tier |-> "none",
            mandate_tier |-> "advisory", estimated_cost |-> 10000000,
            urgency_days |-> 90]) @@
    (12 :> [category |-> "Public Safety", district_id |-> 6,
            safety_tier |-> "severe", mandate_tier |-> "advisory",
            estimated_cost |-> 15000000, urgency_days |-> 7])

IssueIds == DOMAIN issues

Weeks == 1..Horizon

\* ------------------------------------------------------------------------
\* State: the tables of the database, the clock and the last call's outcome
\* ------------------------------------------------------------------------
VARIABLES
    project_candidates,   \* Seq of rows; project_id is the index
    portfolio_decisions,  \* Seq of rows; decision_id is the index
    resource_calendar,    \* [ResourceTypes \X Weeks -> slot]
    schedule_tasks,       \* Seq of rows in insertion order
    audit_log,            \* Seq of events
    today,                \* day number of date.today()
    result,               \* the last call: operation, arguments, outcome
    in_flight             \* the schedule() calls under way, one per process

vars == <<project_candidates, portfolio_decisions, resource_calendar,
          schedule_tasks, audit_log, today, result, in_flight>>

\* ctx.planning_horizon_weeks: the weeks the schedulers plan over, which are
\* the weeks seed_resource_calendar gave the ledger
planning_horizon_weeks ==
    Cardinality(DOMAIN resource_calendar) \div Cardinality(ResourceTypes)

\* the outcome record of a call; NoCall holds the defaults
NoCall ==
    [op |-> "init", ret |-> "NULL", project_id |-> 0, resource_type |-> "NULL",
     week |-> 0, amount |-> 0, reservation_type |-> "NULL",
     require_confirmation |-> FALSE, approved |-> FALSE,
     feasibility_override |-> NULL,
     scheduler |-> "NULL", solver_status |-> "NULL",
     scheduled |-> <<>>, infeasible |-> <<>>,
     approved_list |-> <<>>, deferred_list |-> <<>>,
     weights |-> <<>>, district_id |-> NULL, service_ratio |-> NULL,
     multiplier |-> NULL, equity_tier |-> "NULL"]

ProjectOutcome(op, ret, pid) ==
    [NoCall EXCEPT !.op = op, !.ret = ret, !.project_id = pid]

\* two callers of GreedyScheduler.schedule on the same database; a call that
\* is not under way is "idle"
Processes == {"run_a", "run_b"}

NoRun ==
    [pc |-> "idle", projects |-> <<>>, start |-> 0, week |-> 0,
     scheduled |-> <<>>, infeasible |-> <<>>]

NoRuns == [process \in Processes |-> NoRun]

\* seed_resource_calendar: every type, every week, nothing allocated
seed_resource_calendar ==
    [s \in ResourceTypes \X Weeks |->
        [capacity |-> RESOURCE_CAPACITIES[s[1]],
         soft_allocated |-> 0, hard_allocated |-> 0]]

Init ==
    /\ project_candidates = <<>>
    /\ portfolio_decisions = <<>>
    /\ resource_calendar = seed_resource_calendar
    /\ schedule_tasks = <<>>
    /\ audit_log = <<>>
    /\ today = 0
    /\ result = ProjectOutcome("init", "NULL", 0)
    /\ in_flight = NoRuns

\* ------------------------------------------------------------------------
\* Formation agent
\* ------------------------------------------------------------------------
\* create_project_candidate: one row per call, scores taken from the issue
create_project_candidate(issue_id, estimated_weeks, crew_size, feasibility_estimate) ==
    /\ Len(project_candidates) < MaxProjects
    /\ issue_id \in IssueIds
    /\ estimated_weeks >= 1
    /\ crew_size >= 1
    /\ LET issue == issues[issue_id]
           project ==
             [issue_id |-> issue_id,
              estimated_cost |-> issue.estimated_cost,
              estimated_weeks |-> estimated_weeks,
              required_crew_type |-> CREW_MAPPING(issue.category),
              crew_size |-> crew_size,
              safety_score |-> TIER_VALUES_safety(issue.safety_tier),
              mandate_score |-> TIER_VALUES_mandate(issue.mandate_tier),
              urgency_score |-> score_urgency(issue.urgency_days),
              feasibility_estimate |-> feasibility_estimate]
       IN  /\ project_candidates' = Append(project_candidates, project)
           /\ audit_log' = Append(audit_log,
                  [event_type |-> "PROJECT_SCORED",
                   project_id |-> Len(project_candidates) + 1,
                   detail |-> "NULL"])
           /\ result' = ProjectOutcome("create_project_candidate", "created",
                                       Len(project_candidates) + 1)
    /\ UNCHANGED <<portfolio_decisions, resource_calendar, schedule_tasks, today>>
    /\ UNCHANGED in_flight

\* get_project_by_id
ProjectExists(project_id) == project_id \in DOMAIN project_candidates

\* ------------------------------------------------------------------------
\* Budget and equity (context.py)
\* ------------------------------------------------------------------------
\* a budget sum that leaves out the approvals still waiting for confirmation
Counted_only_approved(d) == d.decision = "APPROVED"

\* the decisions "WHERE decision IN ('APPROVED', 'APPROVED_WITH_CONDITIONS')"
Counted(d) == d.decision \in {"APPROVED", "APPROVED_WITH_CONDITIONS"}

RECURSIVE SumAllocated(_)
SumAllocated(decisions) ==
    IF decisions = <<>> THEN 0
    ELSE LET d == Head(decisions)
         IN  (IF Counted(d) /\ d.allocated_budget # NULL
              THEN d.allocated_budget ELSE 0) + SumAllocated(Tail(decisions))

get_budget_status(decisions) ==
    [total_budget |-> quarterly_budget,
     allocated |-> SumAllocated(decisions),
     remaining |-> quarterly_budget - SumAllocated(decisions)]

\* get_district_allocations: district_allocations has no writer, so the
\* LEFT JOIN yields allocated_budget 0; fair_share is the population share
\* of the quarterly budget
get_district_allocations(district_id) ==
    [allocated_budget |-> 0,
     fair_share |-> districts[district_id] *
                    (quarterly_budget \div SumPopulation(DOMAIN districts))]

check_equity_constraint(district_id, additional_budget) ==
    IF district_id \notin DOMAIN districts THEN TRUE
    ELSE LET district == get_district_allocations(district_id)
             projected == district.allocated_budget + additional_budget
         IN  ~ (projected > district.fair_share * defer_threshold)

\* ------------------------------------------------------------------------
\* Governance agent
\* ------------------------------------------------------------------------
Max(a, b) == IF a >= b THEN a ELSE b

\* approve_project's budget check
InsufficientBudget(status, project) ==
    status.remaining < project.estimated_cost

\* the cost trigger with a strict comparison
needs_confirmation_strict(project, require_confirmation) ==
    \/ require_confirmation
    \/ project.estimated_cost > require_confirmation_cost
    \/ project.safety_score >= require_confirmation_safety

\* approve_project's confirmation triggers
needs_confirmation(project, require_confirmation) ==
    \/ require_confirmation
    \/ project.estimated_cost >= require_confirmation_cost
    \/ project.safety_score >= require_confirmation_safety

PortfolioDecision(project_id, decision, allocated_budget, priority_rank, deadline_week, requires_confirmation, confirmation_deadline) ==
    [project_id |-> project_id,
     decision |-> decision,
     allocated_budget |-> allocated_budget,
     priority_rank |-> priority_rank,
     deadline_week |-> deadline_week,
     requires_confirmation |-> requires_confirmation,
     confirmation_deadline |-> confirmation_deadline,
     confirmed_at |-> NULL,
     confirmed_by |-> "NULL"]

AuditEvent(event_type, project_id, detail) ==
    [event_type |-> event_type, project_id |-> project_id, detail |-> detail]

\* the outcome record of an approve_project call
ApproveOutcome(ret, project_id, require_confirmation) ==
    [ProjectOutcome("approve_project", ret, project_id)
        EXCEPT !.require_confirmation = require_confirmation]

\* an allocator that defers on its own a project the budget cannot carry
InsufficientBudgetError_defer(project_id, require_confirmation) ==
    /\ portfolio_decisions' =
          Append(portfolio_decisions,
              PortfolioDecision(project_id, "DEFERRED", NULL, NULL, NULL,
                                FALSE, NULL))
    /\ audit_log' = Append(audit_log,
          AuditEvent("PROJECT_DEFERRED", project_id, "DEFERRED"))
    /\ result' = ApproveOutcome("DEFERRED", project_id, require_confirmation)

\* "Error: Insufficient budget.": the caller gets the error, nothing is written
InsufficientBudgetError(project_id, require_confirmation) ==
    /\ result' = ApproveOutcome("insufficient_budget", project_id,
                                require_confirmation)
    /\ UNCHANGED <<portfolio_decisions, audit_log>>

approve_project(project_id, priority_rank, require_confirmation) ==
    /\ Len(portfolio_decisions) < MaxDecisions
    /\ IF ~ ProjectExists(project_id)
       THEN /\ result' = ApproveOutcome("not_found", project_id,
                                        require_confirmation)
            /\ UNCHANGED <<portfolio_decisions, audit_log>>
       ELSE LET project == project_candidates[project_id]
                status == get_budget_status(portfolio_decisions)
            IN  IF InsufficientBudget(status, project)
                THEN InsufficientBudgetError(project_id, require_confirmation)
                ELSE LET needs == needs_confirmation(project, require_confirmation)
                         deadline_week ==
                             Max(1, issues[project.issue_id].urgency_days \div 7)
                         confirmation_deadline ==
                             IF needs THEN today + confirmation_timeout_days
                             ELSE NULL
                         decision_status ==
                             IF needs THEN "APPROVED_WITH_CONDITIONS"
                             ELSE "APPROVED"
                     IN  /\ portfolio_decisions' =
                               Append(portfolio_decisions,
                                   PortfolioDecision(project_id, decision_status,
                                       project.estimated_cost, priority_rank,
                                       deadline_week, needs, confirmation_deadline))
                         /\ audit_log' = Append(audit_log,
                               AuditEvent("PROJECT_APPROVED", project_id,
                                          decision_status))
                         /\ result' = ApproveOutcome(decision_status, project_id,
                                                     require_confirmation)
    /\ UNCHANGED <<project_candidates, resource_calendar, schedule_tasks, today>>
    /\ UNCHANGED in_flight

\* defer_project and reject_project differ in the decision they record
RecordNegative(op, decision, event_type, project_id) ==
    /\ Len(portfolio_decisions) < MaxDecisions
    /\ IF ~ ProjectExists(project_id)
       THEN /\ result' = ProjectOutcome(op, "not_found", project_id)
            /\ UNCHANGED <<portfolio_decisions, audit_log>>
       ELSE /\ portfolio_decisions' =
                  Append(portfolio_decisions,
                      PortfolioDecision(project_id, decision, NULL, NULL, NULL,
                                        FALSE, NULL))
            /\ audit_log' = Append(audit_log,
                  AuditEvent(event_type, project_id, decision))
            /\ result' = ProjectOutcome(op, decision, project_id)
    /\ UNCHANGED <<project_candidates, resource_calendar, schedule_tasks, today>>
    /\ UNCHANGED in_flight

defer_project(project_id) ==
    RecordNegative("defer_project", "DEFERRED", "PROJECT_DEFERRED", project_id)

reject_project(project_id) ==
    RecordNegative("reject_project", "REJECTED", "PROJECT_REJECTED", project_id)

\* date.today() moves on between calls, to one of the days the clock is
\* observed at
AdvanceClock(days) ==
    /\ \E day \in days : day > today /\ today' = day
    /\ result' = ProjectOutcome("clock", "NULL", 0)
    /\ UNCHANGED <<project_candidates, portfolio_decisions, resource_calendar,
                   schedule_tasks, audit_log>>
    /\ UNCHANGED in_flight

\* ------------------------------------------------------------------------
\* Resource ledger (context.py, database.py)
\* ------------------------------------------------------------------------
\* the calendar holds one year, so a slot is (resource type, week)
HasSlot(calendar, resource_type, week) ==
    <<resource_type, week>> \in DOMAIN calendar

get_available_capacity(calendar, resource_type, week) ==
    IF HasSlot(calendar, resource_type, week)
    THEN LET slot == calendar[<<resource_type, week>>]
         IN  slot.capacity - slot.soft_allocated - slot.hard_allocated
    ELSE 0

\* a resource_calendar table created without its CHECK
CheckConstraint_off(slot) == TRUE

\* CHECK(soft_allocated + hard_allocated <= capacity) of resource_calendar
CheckConstraint(slot) ==
    slot.soft_allocated + slot.hard_allocated <= slot.capacity

\* an allocate_resource that clamps an over-allocation to the free capacity
\* and reports success
allocate_resource_clamp(calendar, resource_type, week, amount, reservation_type) ==
    IF ~ HasSlot(calendar, resource_type, week)
    THEN [calendar |-> calendar, ret |-> "False"]
    ELSE LET slot == calendar[<<resource_type, week>>]
             free == slot.capacity - slot.soft_allocated - slot.hard_allocated
             granted == IF amount <= free THEN amount
                        ELSE IF free >= 0 THEN free ELSE 0
             updated ==
                IF reservation_type = "soft"
                THEN [slot EXCEPT !.soft_allocated = @ + granted]
                ELSE [slot EXCEPT !.hard_allocated = @ + granted]
         IN  [calendar |-> [calendar EXCEPT ![<<resource_type, week>>] = updated],
              ret |-> "True"]

\* allocate_resource: the UPDATE either changes the one row, matches no row
\* (returns False) or is aborted by the CHECK (sqlite3.IntegrityError)
allocate_resource(calendar, resource_type, week, amount, reservation_type) ==
    IF ~ HasSlot(calendar, resource_type, week)
    THEN [calendar |-> calendar, ret |-> "False"]
    ELSE LET slot == calendar[<<resource_type, week>>]
             updated ==
                IF reservation_type = "soft"
                THEN [slot EXCEPT !.soft_allocated = @ + amount]
                ELSE [slot EXCEPT !.hard_allocated = @ + amount]
         IN  IF CheckConstraint(updated)
             THEN [calendar |-> [calendar EXCEPT ![<<resource_type, week>>] = updated],
                   ret |-> "True"]
             ELSE [calendar |-> calendar, ret |-> "IntegrityError"]

\* the loop "for week in range(start_week, end_week + 1): allocate_resource"
\* of the schedulers; every call commits on its own, an exception ends it
RECURSIVE AllocateWeeks(_, _, _, _, _, _)
AllocateWeeks(calendar, resource_type, week, end_week, crew_size, reservation_type) ==
    IF week > end_week THEN [calendar |-> calendar, raised |-> FALSE]
    ELSE LET r == allocate_resource(calendar, resource_type, week, crew_size,
                                    reservation_type)
         IN  IF r.ret = "IntegrityError"
             THEN [calendar |-> r.calendar, raised |-> TRUE]
             ELSE AllocateWeeks(r.calendar, resource_type, week + 1, end_week,
                                crew_size, reservation_type)

\* ------------------------------------------------------------------------
\* Sort keys
\* ------------------------------------------------------------------------
RankLess(a, b) == a.priority_rank < b.priority_rank

urgency_priority_weight == 500

\* compute_effective_priority: rank / (1 + 0.5 * urgency); two keys are
\* compared exactly by cross-multiplying the denominators
EffectivePriorityDenominator(project) ==
    ScoreScale * ScoreScale + urgency_priority_weight * project.urgency_score

EffectivePriorityLess(a, b) ==
    a.priority_rank * EffectivePriorityDenominator(b)
      < b.priority_rank * EffectivePriorityDenominator(a)

\* key=lambda x: x["composite_score"], reverse=True
CompositeGreater(a, b) == a.composite_score > b.composite_score

\* a processing order that takes the rank alone
KeyLess_rank_only(key, a, b) ==
    IF key = "composite_score" THEN CompositeGreater(a, b)
    ELSE RankLess(a, b)

KeyLess(key, a, b) ==
    IF key = "priority_rank" THEN RankLess(a, b)
    ELSE IF key = "composite_score" THEN CompositeGreater(a, b)
    ELSE EffectivePriorityLess(a, b)

\* Python's sorted and SQL's ORDER BY, both taken as stable
RECURSIVE InsertSorted(_, _, _)
InsertSorted(x, sorted, key) ==
    IF sorted = <<>> THEN <<x>>
    ELSE IF KeyLess(key, x, Head(sorted)) THEN <<x>> \o sorted
    ELSE <<Head(sorted)>> \o InsertSorted(x, Tail(sorted), key)

RECURSIVE StableSort(_, _)
StableSort(seq, key) ==
    IF seq = <<>> THEN <<>>
    ELSE InsertSorted(seq[Len(seq)], StableSort(SubSeq(seq, 1, Len(seq) - 1), key),
                      key)

\* ------------------------------------------------------------------------
\* Tiered selection (governance_agent.py)
\* ------------------------------------------------------------------------
mandate_threshold == 700
urgent_urgency == 700
urgent_safety == 700

\* get_project_candidates: SELECT * ... ORDER BY composite_score DESC; the
\* project_id column is the row's index, rows of equal score come in table
\* order
RECURSIVE CandidateRows(_, _)
CandidateRows(candidates, i) ==
    IF i > Len(candidates) THEN <<>>
    ELSE <<[project_id |-> i,
            estimated_cost |-> candidates[i].estimated_cost,
            mandate_score |-> candidates[i].mandate_score,
            urgency_score |-> candidates[i].urgency_score,
            safety_score |-> candidates[i].safety_score,
            composite_score |-> candidates[i].composite_score]>>
         \o CandidateRows(candidates, i + 1)

get_project_candidates(candidates) ==
    StableSort(CandidateRows(candidates, 1), "composite_score")

IdsOf(list) == {list[i].project_id : i \in DOMAIN list}

\* a cap check that lets the first candidate of a phase through
WithinCap_first_free(allocated, cost, cap) ==
    allocated = 0 \/ allocated + cost <= cap

\* "if <phase>_allocated + c["estimated_cost"] <= <phase>_cap"
WithinCap(allocated, cost, cap) == allocated + cost <= cap

\* a rank counter that stops at 1
NextRank_stuck(priority_rank) == 1

\* "priority_rank += 1"
NextRank(priority_rank) == priority_rank + 1

\* the running lists and the rank counter of run_tiered_selection
NoSelection ==
    [approved |-> <<>>, deferred |-> <<>>, priority_rank |-> 0, allocated |-> 0]

\* one "for c in <phase list>" loop: admit while the cap holds, defer the
\* rest with the phase's reason
RECURSIVE AdmitPhase(_, _, _, _, _)
AdmitPhase(list, cap, phase, reason, sel) ==
    IF list = <<>> THEN sel
    ELSE LET c == Head(list)
         IN  IF WithinCap(sel.allocated, c.estimated_cost, cap)
             THEN AdmitPhase(Tail(list), cap, phase, reason,
                      [sel EXCEPT
                          !.priority_rank = NextRank(@),
                          !.approved = Append(@,
                              [project_id |-> c.project_id,
                               estimated_cost |-> c.estimated_cost,
                               phase |-> phase,
                               priority |-> NextRank(sel.priority_rank)]),
                          !.allocated = @ + c.estimated_cost])
             ELSE AdmitPhase(Tail(list), cap, phase, reason,
                      [sel EXCEPT
                          !.deferred = Append(@,
                              [project_id |-> c.project_id,
                               reason |-> reason])])

\* the three phases over the candidates; each phase starts its own
\* allocation counter at 0 and carries the lists and the rank on.  The caps
\* budget * 0.30 and budget * 0.20 are whole dollars for the quarterly
\* budget (22,500,000.0 and 15,000,000.0 as floats)
TieredSelection(candidates) ==
    LET budget == quarterly_budget
        mandate_cap == (budget \div 100) * mandate_budget_cap
        urgent_cap == (budget \div 100) * urgent_critical_cap
        IsMandate(c) == c.mandate_score >= mandate_threshold
        mandates == StableSort(SelectSeq(candidates, IsMandate),
                               "composite_score")
        phase1 == AdmitPhase(mandates, mandate_cap, "MANDATE",
                             "Mandate budget cap exceeded", NoSelection)
        IsUrgentCritical(c) ==
            /\ c.project_id \notin IdsOf(phase1.approved)
            /\ c.urgency_score > urgent_urgency
            /\ c.safety_score >= urgent_safety
        urgent_critical == StableSort(SelectSeq(candidates, IsUrgentCritical),
                                      "composite_score")
        phase2 == AdmitPhase(urgent_critical, urgent_cap, "URGENT_CRITICAL",
                             "Urgent-critical budget cap exceeded",
                             [phase1 EXCEPT !.allocated = 0])
        IsRemaining(c) ==
            /\ c.project_id \notin IdsOf(phase2.approved)
            /\ c.project_id \notin IdsOf(phase2.deferred)
        remaining == StableSort(SelectSeq(candidates, IsRemaining),
                                "composite_score")
        value_cap == budget - phase1.allocated - phase2.allocated
        phase3 == AdmitPhase(remaining, value_cap, "VALUE_RANKED",
                             "Budget exhausted",
                             [phase2 EXCEPT !.allocated = 0])
    IN  [approved |-> phase3.approved, deferred |-> phase3.deferred]

\* the run_tiered_selection tool: reads the candidates, writes nothing
run_tiered_selection ==
    /\ LET candidates == get_project_candidates(project_candidates)
       IN  IF candidates = <<>>
           THEN result' = ProjectOutcome("run_tiered_selection",
                                         "no_candidates", 0)
           ELSE LET selection == TieredSelection(candidates)
                IN  result' = [NoCall EXCEPT
                                  !.op = "run_tiered_selection",
                                  !.ret = "ok",
                                  !.approved_list = selection.approved,
                                  !.deferred_list = selection.deferred]
    /\ UNCHANGED <<project_candidates, portfolio_decisions, resource_calendar,
                   schedule_tasks, audit_log, today>>
    /\ UNCHANGED in_flight

\* ------------------------------------------------------------------------
\* Scheduling agent
\* ------------------------------------------------------------------------
\* get_approved_projects: candidates joined with their counted decisions,
\* ORDER BY priority_rank
RECURSIVE JoinApproved(_, _, _)
JoinApproved(candidates, decisions, i) ==
    IF i > Len(decisions) THEN <<>>
    ELSE LET d == decisions[i]
         IN  IF Counted(d) /\ d.project_id \in DOMAIN candidates
             THEN LET p == candidates[d.project_id]
                  IN  <<[project_id |-> d.project_id,
                         estimated_weeks |-> p.estimated_weeks,
                         required_crew_type |-> p.required_crew_type,
                         crew_size |-> p.crew_size,
                         urgency_score |-> p.urgency_score,
                         priority_rank |-> d.priority_rank,
                         deadline_week |-> d.deadline_week,
                         requires_confirmation |-> d.requires_confirmation,
                         confirmed_at |-> d.confirmed_at]>>
                      \o JoinApproved(candidates, decisions, i + 1)
             ELSE JoinApproved(candidates, decisions, i + 1)

get_approved_projects(candidates, decisions) ==
    StableSort(JoinApproved(candidates, decisions, 1), "priority_rank")

\* find_earliest_start; NULL when no window fits
WindowFeasible(calendar, resource_type, start_week, duration, crew_size) ==
    \A week \in start_week..(start_week + duration - 1) :
        /\ week <= planning_horizon_weeks
        /\ get_available_capacity(calendar, resource_type, week) >= crew_size

\* a search that returns the latest start that fits
find_earliest_start_latest(calendar, resource_type, duration, crew_size) ==
    LET starts == {s \in 1..(planning_horizon_weeks - duration + 1) :
                      WindowFeasible(calendar, resource_type, s, duration, crew_size)}
    IN  IF starts = {} THEN NULL
        ELSE CHOOSE s \in starts : \A t \in starts : s >= t

find_earliest_start(calendar, resource_type, duration, crew_size) ==
    LET starts == {s \in 1..(planning_horizon_weeks - duration + 1) :
                      WindowFeasible(calendar, resource_type, s, duration, crew_size)}
    IN  IF starts = {} THEN NULL
        ELSE CHOOSE s \in starts : \A t \in starts : s <= t

\* compute_deadline_status (GreedyScheduler) returns (status, slack_days)
compute_deadline_status(end_week, deadline_week) ==
    IF deadline_week = NULL THEN [status |-> "ON_TRACK", slack_days |-> NULL]
    ELSE LET slack_weeks == deadline_week - end_week
         IN  [status |-> IF slack_weeks >= 2 THEN "ON_TRACK"
                         ELSE IF slack_weeks >= 0 THEN "AT_RISK"
                         ELSE "MISSED",
              slack_days |-> slack_weeks * 7]

\* a reservation type that forgets the human confirmation
ReservationType_unconfirmed(project) ==
    IF ~ project.requires_confirmation THEN "hard" ELSE "soft"

\* "hard" if confirmed or not requires_confirmation else "soft"
ReservationType(project) ==
    IF project.confirmed_at # NULL \/ ~ project.requires_confirmation
    THEN "hard" ELSE "soft"

ScheduledEntry(project, start_week, end_week, status) ==
    [project_id |-> project.project_id,
     start_week |-> start_week,
     end_week |-> end_week,
     deadline_week |-> project.deadline_week,
     deadline_status |-> status.status,
     slack_days |-> status.slack_days,
     resource_type |-> project.required_crew_type,
     crew_assigned |-> project.crew_size,
     reservation_type |-> ReservationType(project),
     priority_rank |-> project.priority_rank,
     urgency_score |-> project.urgency_score]

\* the outcome of a schedule() call: the ledger it leaves, its two lists, and
\* whether an exception left it early
ScheduleRun(calendar, scheduled, infeasible, raised) ==
    [calendar |-> calendar, scheduled |-> scheduled, infeasible |-> infeasible,
     raised |-> raised]

\* the loop of GreedyScheduler.schedule over the sorted projects
RECURSIVE GreedyLoop(_, _)
GreedyLoop(projects, run) ==
    IF projects = <<>> \/ run.raised THEN run
    ELSE LET project == Head(projects)
             start_week == find_earliest_start(run.calendar,
                               project.required_crew_type,
                               project.estimated_weeks, project.crew_size)
         IN  IF start_week = NULL
             THEN GreedyLoop(Tail(projects),
                      [run EXCEPT !.infeasible = Append(@, project.project_id)])
             ELSE LET end_week == start_week + project.estimated_weeks - 1
                      status == compute_deadline_status(end_week,
                                                        project.deadline_week)
                      alloc == AllocateWeeks(run.calendar,
                                   project.required_crew_type, start_week,
                                   end_week, project.crew_size,
                                   ReservationType(project))
                  IN  IF alloc.raised
                      THEN [run EXCEPT !.calendar = alloc.calendar,
                                       !.raised = TRUE]
                      ELSE GreedyLoop(Tail(projects),
                               [run EXCEPT !.calendar = alloc.calendar,
                                           !.scheduled = Append(@,
                                               ScheduledEntry(project, start_week,
                                                              end_week, status))])

\* a scheduler whose answer depends on the schedule saved before: it places
\* nothing once the task table is not empty
GreedyScheduler_schedule_once(calendar, projects) ==
    IF schedule_tasks # <<>> THEN ScheduleRun(calendar, <<>>, <<>>, FALSE)
    ELSE GreedyLoop(StableSort(projects, "effective_priority"),
                    ScheduleRun(calendar, <<>>, <<>>, FALSE))

GreedyScheduler_schedule(calendar, projects) ==
    GreedyLoop(StableSort(projects, "effective_priority"),
               ScheduleRun(calendar, <<>>, <<>>, FALSE))

\* a repair pass that takes the tasks that miss their deadline out of the
\* task list
GreedyWithRepairScheduler_schedule_drop(calendar, projects) ==
    LET run == GreedyScheduler_schedule(calendar, projects)
    IN  [run EXCEPT !.scheduled =
            SelectSeq(run.scheduled, LAMBDA t : t.deadline_status # "MISSED")]

\* GreedyWithRepairScheduler.schedule: the repair loop collects swap
\* candidates and never sets "improved", so it returns the greedy result
GreedyWithRepairScheduler_schedule(calendar, projects) ==
    GreedyScheduler_schedule(calendar, projects)

\* ------------------------------------------------------------------------
\* CPSATScheduler: the integer program and its solutions
\* ------------------------------------------------------------------------
\* capacities that forget what the ledger already holds
CPSATCapacity_total(calendar, resource_type, week) ==
    IF HasSlot(calendar, resource_type, week)
    THEN calendar[<<resource_type, week>>].capacity
    ELSE 0

\* capacities[rtype][week] = max(0, avail); a missing week counts 0
CPSATCapacity(calendar, resource_type, week) ==
    IF HasSlot(calendar, resource_type, week)
    THEN Max(0, get_available_capacity(calendar, resource_type, week))
    ELSE 0

ProjectIdsOf(projects) == {projects[i].project_id : i \in DOMAIN projects}

\* max_start; a project with max_start < 1 gets no start variable
MaxStart(project) == planning_horizon_weeks - project.estimated_weeks + 1

HasStart(project) == MaxStart(project) >= 1

DurationOf(projects, pid) ==
    LET i == CHOOSE j \in DOMAIN projects : projects[j].project_id = pid
    IN  projects[i].estimated_weeks

\* one value per decision variable: start (0 when there is none) and the
\* boolean "scheduled", keyed by project_id as the dicts starts and
\* scheduled_vars are
VariableValues(projects, pid) ==
    IF planning_horizon_weeks - DurationOf(projects, pid) + 1 < 1
    THEN {[start |-> 0, scheduled |-> FALSE]}
    ELSE [start : 1..(planning_horizon_weeks - DurationOf(projects, pid) + 1),
          scheduled : BOOLEAN]

RECURSIVE AssignmentsOver(_, _)
AssignmentsOver(pids, projects) ==
    IF pids = {} THEN {<<>>}
    ELSE LET pid == CHOOSE x \in pids : TRUE
         IN  {(pid :> v) @@ a : v \in VariableValues(projects, pid),
                                a \in AssignmentsOver(pids \ {pid}, projects)}

CPSATAssignments(projects) ==
    AssignmentsOver(ProjectIdsOf(projects), projects)

EndOf(a, project) == a[project.project_id].start + project.estimated_weeks - 1

IsActive(a, project, week) ==
    /\ a[project.project_id].scheduled
    /\ a[project.project_id].start <= week
    /\ EndOf(a, project) >= week

RECURSIVE WeekUsage(_, _, _, _)
WeekUsage(a, projects, resource_type, week) ==
    IF projects = <<>> THEN 0
    ELSE LET p == Head(projects)
         IN  (IF p.required_crew_type = resource_type /\ HasStart(p)
                 /\ IsActive(a, p, week)
              THEN p.crew_size ELSE 0)
             + WeekUsage(a, Tail(projects), resource_type, week)

HasDeadline(project) == project.deadline_week # NULL /\ project.deadline_week # 0

\* weight = int(100 * (1 + urgency))
ViolationWeight(project) == (100 * (ScoreScale + project.urgency_score)) \div ScoreScale

\* diff = end - deadline_week must lie in the domain [-horizon, horizon] of
\* the variable that holds it
DiffInDomain(a, project) ==
    LET diff == EndOf(a, project) - project.deadline_week
    IN  diff >= 0 - planning_horizon_weeks /\ diff <= planning_horizon_weeks

CPSATConstraints(calendar, projects, a) ==
    /\ \A i \in DOMAIN projects :
          \A week \in 1..planning_horizon_weeks :
              WeekUsage(a, projects, projects[i].required_crew_type, week)
                 <= CPSATCapacity(calendar, projects[i].required_crew_type, week)
    /\ \A i \in DOMAIN projects :
          (HasDeadline(projects[i]) /\ HasStart(projects[i]))
             => DiffInDomain(a, projects[i])

RECURSIVE TotalViolations(_, _)
TotalViolations(a, projects) ==
    IF projects = <<>> THEN 0
    ELSE LET p == Head(projects)
         IN  (IF HasDeadline(p) /\ HasStart(p)
              THEN ViolationWeight(p) * Max(0, EndOf(a, p) - p.deadline_week)
              ELSE 0)
             + TotalViolations(a, Tail(projects))

\* 1000 * total_scheduled - total_violations
CPSATObjective(a, projects) ==
    1000 * Cardinality({pid \in ProjectIdsOf(projects) : a[pid].scheduled})
      - TotalViolations(a, projects)

CPSATFeasible(calendar, projects) ==
    {a \in CPSATAssignments(projects) : CPSATConstraints(calendar, projects, a)}

CPSATOptimal(calendar, projects) ==
    LET feasible == CPSATFeasible(calendar, projects)
        objectives == {CPSATObjective(a, projects) : a \in feasible}
        best == CHOOSE v \in objectives : \A w \in objectives : v >= w
    IN  {a \in feasible : CPSATObjective(a, projects) = best}

\* what solver.Solve may hand back: an optimal assignment (OPTIMAL), any
\* feasible one (FEASIBLE, the time limit hit), or none (UNKNOWN on the
\* time limit, INFEASIBLE when the constraints have no solution)
NoAssignment == [found |-> FALSE, assignment |-> <<>>, status |-> "NULL"]

CPSATSolve(calendar, projects, status) ==
    CASE status = "OPTIMAL" ->
            {[found |-> TRUE, assignment |-> a, status |-> status] :
                a \in CPSATOptimal(calendar, projects)}
      [] status = "FEASIBLE" ->
            {[found |-> TRUE, assignment |-> a, status |-> status] :
                a \in CPSATFeasible(calendar, projects)}
      [] status = "INFEASIBLE" ->
            IF CPSATFeasible(calendar, projects) = {}
            THEN {[NoAssignment EXCEPT !.status = status]} ELSE {}
      [] OTHER -> {[NoAssignment EXCEPT !.status = status]}

\* a status rule that calls a task finishing in its deadline week ON_TRACK
CPSAT_deadline_status_lenient(end_week, deadline_week) ==
    IF deadline_week = NULL THEN [status |-> "ON_TRACK", slack_days |-> NULL]
    ELSE LET slack_weeks == deadline_week - end_week
         IN  [status |-> IF slack_weeks >= 0 THEN "ON_TRACK" ELSE "MISSED",
              slack_days |-> slack_weeks * 7]

\* the deadline status CPSATScheduler.schedule computes inline
CPSAT_deadline_status(end_week, deadline_week) ==
    IF deadline_week = NULL THEN [status |-> "ON_TRACK", slack_days |-> NULL]
    ELSE LET slack_weeks == deadline_week - end_week
         IN  [status |-> IF slack_weeks >= 2 THEN "ON_TRACK"
                         ELSE IF slack_weeks >= 0 THEN "AT_RISK"
                         ELSE "MISSED",
              slack_days |-> slack_weeks * 7]

\* the loop over the projects after a solution was found
RECURSIVE CPSATLoop(_, _, _)
CPSATLoop(projects, a, run) ==
    IF projects = <<>> \/ run.raised THEN run
    ELSE LET project == Head(projects)
             pid == project.project_id
         IN  IF a[pid].start = 0 \/ ~ a[pid].scheduled
             THEN CPSATLoop(Tail(projects), a,
                      [run EXCEPT !.infeasible = Append(@, pid)])
             ELSE LET start_week == a[pid].start
                      end_week == EndOf(a, project)
                      status == CPSAT_deadline_status(end_week,
                                                      project.deadline_week)
                      alloc == AllocateWeeks(run.calendar,
                                   project.required_crew_type, start_week,
                                   end_week, project.crew_size,
                                   ReservationType(project))
                  IN  IF alloc.raised
                      THEN [run EXCEPT !.calendar = alloc.calendar,
                                       !.raised = TRUE]
                      ELSE CPSATLoop(Tail(projects), a,
                               [run EXCEPT !.calendar = alloc.calendar,
                                           !.scheduled = Append(@,
                                               ScheduledEntry(project, start_week,
                                                              end_week, status))])

RECURSIVE AllProjectIds(_)
AllProjectIds(projects) ==
    IF projects = <<>> THEN <<>>
    ELSE <<Head(projects).project_id>> \o AllProjectIds(Tail(projects))

\* a constraint scheduler that falls back on the greedy pass when the solver
\* has no solution
CPSATScheduler_schedule_fallback(calendar, projects, solution) ==
    IF projects = <<>> THEN ScheduleRun(calendar, <<>>, <<>>, FALSE)
    ELSE IF solution.found
    THEN CPSATLoop(projects, solution.assignment,
                   ScheduleRun(calendar, <<>>, <<>>, FALSE))
    ELSE GreedyScheduler_schedule(calendar, projects)

CPSATScheduler_schedule(calendar, projects, solution) ==
    IF projects = <<>> THEN ScheduleRun(calendar, <<>>, <<>>, FALSE)
    ELSE IF solution.found
    THEN CPSATLoop(projects, solution.assignment,
                   ScheduleRun(calendar, <<>>, <<>>, FALSE))
    ELSE ScheduleRun(calendar, <<>>, AllProjectIds(projects), FALSE)

\* ------------------------------------------------------------------------
\* Scheduler selection and the scheduling tools
\* ------------------------------------------------------------------------
greedy_threshold_projects == 10
greedy_threshold_resource_types == 2
repair_threshold_projects == 20
tight_urgency == 700
tight_fraction == 300

TightDeadlines(projects) ==
    Cardinality({i \in DOMAIN projects : projects[i].urgency_score > tight_urgency})

\* a tightness test that counts a fraction of exactly 0.3 as tight
has_tight_deadlines_inclusive(projects) ==
    TightDeadlines(projects) * ScoreScale >= Len(projects) * tight_fraction

\* tight_deadlines > n_projects * 0.3
has_tight_deadlines(projects) ==
    TightDeadlines(projects) * ScoreScale > Len(projects) * tight_fraction

ResourceTypesOf(projects) ==
    {projects[i].required_crew_type : i \in DOMAIN projects}

\* the selection of the select_scheduler tool
SelectScheduler_select(projects) ==
    IF /\ Len(projects) <= greedy_threshold_projects
       /\ Cardinality(ResourceTypesOf(projects)) <= greedy_threshold_resource_types
    THEN "GreedyScheduler"
    ELSE IF /\ Len(projects) <= repair_threshold_projects
            /\ ~ has_tight_deadlines(projects)
    THEN "GreedyWithRepairScheduler"
    ELSE "CPSATScheduler"

\* the selection of save_schedule
SelectScheduler_save(projects) ==
    IF /\ Len(projects) <= greedy_threshold_projects
       /\ Cardinality(ResourceTypesOf(projects)) <= greedy_threshold_resource_types
    THEN "GreedyScheduler"
    ELSE IF /\ Len(projects) <= repair_threshold_projects
            /\ ~ has_tight_deadlines(projects)
    THEN "GreedyWithRepairScheduler"
    ELSE "CPSATScheduler"

\* the selection of run_scheduler
SelectScheduler(projects) ==
    IF /\ Len(projects) <= greedy_threshold_projects
       /\ Cardinality(ResourceTypesOf(projects)) <= greedy_threshold_resource_types
    THEN "GreedyScheduler"
    ELSE IF /\ Len(projects) <= repair_threshold_projects
            /\ ~ has_tight_deadlines(projects)
    THEN "GreedyWithRepairScheduler"
    ELSE "CPSATScheduler"

Schedulers == {"GreedyScheduler", "GreedyWithRepairScheduler", "CPSATScheduler"}

SolverStatuses == {"OPTIMAL", "FEASIBLE", "INFEASIBLE", "UNKNOWN"}

\* the solver outcomes a scheduler's run depends on (none for the greedy ones)
SolverOutcomes(scheduler, calendar, projects) ==
    IF scheduler = "CPSATScheduler" /\ projects # <<>>
    THEN UNION {CPSATSolve(calendar, projects, status) : status \in SolverStatuses}
    ELSE {NoAssignment}

RunScheduler(scheduler, calendar, projects, solution) ==
    CASE scheduler = "GreedyScheduler" ->
            GreedyScheduler_schedule(calendar, projects)
      [] scheduler = "GreedyWithRepairScheduler" ->
            GreedyWithRepairScheduler_schedule(calendar, projects)
      [] OTHER ->
            CPSATScheduler_schedule(calendar, projects, solution)

ScheduleOutcome(op, scheduler, run, solution) ==
    [NoCall EXCEPT !.op = op,
                   !.ret = IF run.raised THEN "IntegrityError" ELSE "ok",
                   !.scheduler = scheduler,
                   !.solver_status = solution.status,
                   !.scheduled = run.scheduled,
                   !.infeasible = run.infeasible]

\* the select_scheduler tool: reports the choice, writes nothing
select_scheduler ==
    LET projects == get_approved_projects(project_candidates, portfolio_decisions)
    IN  /\ result' = [NoCall EXCEPT !.op = "select_scheduler", !.ret = "ok",
                                    !.scheduler = SelectScheduler_select(projects)]
        /\ UNCHANGED <<project_candidates, portfolio_decisions,
                       resource_calendar, schedule_tasks, audit_log, today>>
    /\ UNCHANGED in_flight

\* scheduler.schedule(get_approved_projects()) on one of the three classes
schedule(scheduler) ==
    LET projects == get_approved_projects(project_candidates, portfolio_decisions)
    IN  /\ \E solution \in SolverOutcomes(scheduler, resource_calendar, projects) :
              LET run == RunScheduler(scheduler, resource_calendar, projects, solution)
              IN  /\ resource_calendar' = run.calendar
                  /\ result' = ScheduleOutcome("schedule", scheduler, run,
                                                solution)
        /\ UNCHANGED <<project_candidates, portfolio_decisions, schedule_tasks,
                       audit_log, today>>
    /\ UNCHANGED in_flight

\* run_scheduler: reserves in the ledger, saves no task
run_scheduler ==
    LET projects == get_approved_projects(project_candidates, portfolio_decisions)
        scheduler == SelectScheduler(projects)
    IN  /\ IF projects = <<>>
           THEN /\ result' = ProjectOutcome("run_scheduler", "no_projects", 0)
                /\ UNCHANGED resource_calendar
           ELSE \E solution \in SolverOutcomes(scheduler, resource_calendar, projects) :
                   LET run == RunScheduler(scheduler, resource_calendar, projects,
                                           solution)
                   IN  /\ resource_calendar' = run.calendar
                       /\ result' = ScheduleOutcome("run_scheduler", scheduler, run,
                                                     solution)
        /\ UNCHANGED <<project_candidates, portfolio_decisions, schedule_tasks,
                       audit_log, today>>
    /\ UNCHANGED in_flight

\* the ScheduleTask rows and TASK_SCHEDULED events save_schedule writes
ScheduleTask(s) ==
    [project_id |-> s.project_id,
     start_week |-> s.start_week,
     end_week |-> s.end_week,
     deadline_week |-> s.deadline_week,
     deadline_status |-> s.deadline_status,
     slack_days |-> s.slack_days,
     resource_type |-> s.resource_type,
     crew_assigned |-> s.crew_assigned,
     reservation_type |-> s.reservation_type,
     status |-> "SCHEDULED"]

RECURSIVE TaskRows(_)
TaskRows(scheduled) ==
    IF scheduled = <<>> THEN <<>>
    ELSE <<ScheduleTask(Head(scheduled))>> \o TaskRows(Tail(scheduled))

RECURSIVE TaskEvents(_)
TaskEvents(scheduled) ==
    IF scheduled = <<>> THEN <<>>
    ELSE <<AuditEvent("TASK_SCHEDULED", Head(scheduled).project_id,
                      Head(scheduled).reservation_type)>>
         \o TaskEvents(Tail(scheduled))

\* save_schedule: runs the scheduler again and inserts one task per entry
\* (a project longer than the horizon never gets one); max_tasks caps the
\* rows of schedule_tasks
SaveSchedule(max_tasks) ==
    LET projects == get_approved_projects(project_candidates, portfolio_decisions)
        scheduler == SelectScheduler_save(projects)
    IN  /\ Len(schedule_tasks)
              + Cardinality({i \in DOMAIN projects : HasStart(projects[i])})
              <= max_tasks
        /\ IF projects = <<>>
           THEN /\ result' = ProjectOutcome("save_schedule", "no_projects", 0)
                /\ UNCHANGED <<resource_calendar, schedule_tasks, audit_log>>
           ELSE \E solution \in SolverOutcomes(scheduler, resource_calendar, projects) :
                   LET run == RunScheduler(scheduler, resource_calendar, projects,
                                           solution)
                   IN  /\ resource_calendar' = run.calendar
                       /\ result' = ScheduleOutcome("save_schedule", scheduler, run,
                                                     solution)
                       /\ IF run.raised
                          THEN UNCHANGED <<schedule_tasks, audit_log>>
                          ELSE /\ schedule_tasks' =
                                     schedule_tasks \o TaskRows(run.scheduled)
                               /\ audit_log' =
                                     audit_log \o TaskEvents(run.scheduled)
        /\ UNCHANGED <<project_candidates, portfolio_decisions, today>>
    /\ UNCHANGED in_flight

save_schedule == SaveSchedule(MaxTasks)

\* a direct call of MunicipalContext.allocate_resource
AllocateResource(resource_type, week, amount, reservation_type) ==
    LET r == allocate_resource(resource_calendar, resource_type, week, amount,
                               reservation_type)
    IN  /\ resource_calendar' = r.calendar
        /\ result' = [NoCall EXCEPT !.op = "allocate_resource", !.ret = r.ret,
                                    !.resource_type = resource_type,
                                    !.week = week, !.amount = amount,
                                    !.reservation_type = reservation_type]
        /\ UNCHANGED <<project_candidates, portfolio_decisions, schedule_tasks,
                       audit_log, today>>
    /\ UNCHANGED in_flight

\* ------------------------------------------------------------------------
\* Expiry release (context.py)
\* ------------------------------------------------------------------------
\* the rows "WHERE project_id = ? AND reservation_type = 'soft'" selects
SoftTask(task, project_id) ==
    task.project_id = project_id /\ task.reservation_type = "soft"

\* UPDATE ... SET soft_allocated = soft_allocated - crew for one task's weeks
ReleaseTask(calendar, task) ==
    [s \in DOMAIN calendar |->
        IF s[1] = task.resource_type /\ s[2] \in task.start_week..task.end_week
        THEN [calendar[s] EXCEPT !.soft_allocated = @ - task.crew_assigned]
        ELSE calendar[s]]

RECURSIVE ReleaseTasks(_, _, _)
ReleaseTasks(calendar, tasks, project_id) ==
    IF tasks = <<>> THEN calendar
    ELSE IF SoftTask(Head(tasks), project_id)
    THEN ReleaseTasks(ReleaseTask(calendar, Head(tasks)), Tail(tasks), project_id)
    ELSE ReleaseTasks(calendar, Tail(tasks), project_id)

\* UPDATE schedule_tasks SET status = 'EXPIRED' for the same rows
ExpireTasks(tasks, project_id) ==
    [i \in DOMAIN tasks |->
        IF SoftTask(tasks[i], project_id)
        THEN [tasks[i] EXCEPT !.status = "EXPIRED"]
        ELSE tasks[i]]

release_soft_reservations(project_id) ==
    /\ \A s \in DOMAIN resource_calendar :
          resource_calendar[s].soft_allocated >= 0 - MaxDebt
    /\ resource_calendar' =
          ReleaseTasks(resource_calendar, schedule_tasks, project_id)
    /\ schedule_tasks' = ExpireTasks(schedule_tasks, project_id)
    /\ result' = ProjectOutcome("release_soft_reservations", "None", project_id)
    /\ UNCHANGED <<project_candidates, portfolio_decisions, audit_log, today>>
    /\ UNCHANGED in_flight

\* ------------------------------------------------------------------------
\* Human confirmation (confirmation_cli.py)
\* ------------------------------------------------------------------------
\* an UPDATE whose WHERE names the project only
Pending_any_state(d, project_id) == d.project_id = project_id

\* WHERE project_id = ? AND decision = 'APPROVED_WITH_CONDITIONS'
Pending(d, project_id) ==
    d.project_id = project_id /\ d.decision = "APPROVED_WITH_CONDITIONS"

\* UPDATE portfolio_decisions SET decision = ?, confirmed_at, confirmed_by
ResolveDecisions(decisions, project_id, decision, confirmed_by) ==
    [i \in DOMAIN decisions |->
        IF Pending(decisions[i], project_id)
        THEN [decisions[i] EXCEPT !.decision = decision,
                                  !.confirmed_at = today,
                                  !.confirmed_by = confirmed_by]
        ELSE decisions[i]]

\* a rejection that leaves the project's schedule tasks in the table
DeleteTasks_keep(tasks, project_id) == tasks

\* DELETE FROM schedule_tasks WHERE project_id = ?
RECURSIVE DeleteTasks(_, _)
DeleteTasks(tasks, project_id) ==
    IF tasks = <<>> THEN <<>>
    ELSE IF Head(tasks).project_id = project_id
    THEN DeleteTasks(Tail(tasks), project_id)
    ELSE <<Head(tasks)>> \o DeleteTasks(Tail(tasks), project_id)

\* confirm_project.  With a feasibility override the INSERT INTO audit_log
\* names columns the table does not have; the exception handler rolls the
\* whole transaction back and the call returns False.
confirm_project(project_id, approved, confirmed_by, feasibility_override) ==
    /\ result' = [NoCall EXCEPT !.op = "confirm_project",
                                !.ret = IF approved /\ feasibility_override # NULL
                                        THEN "False" ELSE "True",
                                !.project_id = project_id,
                                !.approved = approved,
                                !.feasibility_override = feasibility_override]
    /\ IF approved
       THEN IF feasibility_override # NULL
            THEN UNCHANGED <<portfolio_decisions, schedule_tasks>>
            ELSE /\ portfolio_decisions' =
                       ResolveDecisions(portfolio_decisions, project_id,
                                        "APPROVED", confirmed_by)
                 /\ UNCHANGED schedule_tasks
       ELSE /\ portfolio_decisions' =
                  ResolveDecisions(portfolio_decisions, project_id,
                                   "REJECTED", confirmed_by)
            /\ schedule_tasks' = DeleteTasks(schedule_tasks, project_id)
    /\ UNCHANGED <<project_candidates, resource_calendar, audit_log, today>>
    /\ UNCHANGED in_flight

\* ------------------------------------------------------------------------
\* GreedyScheduler.schedule one database call at a time: every
\* get_available_capacity and every allocate_resource opens its own
\* connection and commits on its own, so the calls of two processes on the
\* same database interleave
\* ------------------------------------------------------------------------
OtherTables == <<project_candidates, portfolio_decisions, schedule_tasks, audit_log, today, result>>

\* run_scheduler reads the approved projects, schedule() sorts them
BeginRun(process) ==
    /\ in_flight[process].pc = "idle"
    /\ in_flight' = [in_flight EXCEPT ![process] =
          [NoRun EXCEPT
              !.pc = "next",
              !.projects =
                  StableSort(get_approved_projects(project_candidates,
                                                   portfolio_decisions),
                             "effective_priority")]]
    /\ UNCHANGED <<resource_calendar, OtherTables>>

\* "for project in sorted_projects" and the head of find_earliest_start's
\* loop "for start_week in range(1, horizon - duration + 2)"
NextProject(process) ==
    LET run == in_flight[process]
    IN  /\ run.pc = "next"
        /\ in_flight' = [in_flight EXCEPT ![process] =
              IF run.projects = <<>> THEN [run EXCEPT !.pc = "done"]
              ELSE IF planning_horizon_weeks
                         - Head(run.projects).estimated_weeks + 1 < 1
              THEN [run EXCEPT
                       !.infeasible = Append(@, Head(run.projects).project_id),
                       !.projects = Tail(@)]
              ELSE [run EXCEPT !.pc = "read", !.start = 1, !.week = 1]]
        /\ UNCHANGED <<resource_calendar, OtherTables>>

\* one pass of "for week in range(start_week, start_week + duration)": the
\* read of the slot and the comparison with the crew size
ReadCapacity(process) ==
    LET run == in_flight[process]
        project == Head(run.projects)
        available == get_available_capacity(resource_calendar,
                         project.required_crew_type, run.week)
        last_start == planning_horizon_weeks - project.estimated_weeks + 1
    IN  /\ run.pc = "read"
        /\ in_flight' = [in_flight EXCEPT ![process] =
              IF run.week > planning_horizon_weeks
                    \/ available < project.crew_size
              THEN IF run.start + 1 > last_start
                   THEN [run EXCEPT
                            !.pc = "next",
                            !.infeasible = Append(@, project.project_id),
                            !.projects = Tail(@),
                            !.start = 0,
                            !.week = 0]
                   ELSE [run EXCEPT !.start = @ + 1, !.week = run.start + 1]
              ELSE IF run.week = run.start + project.estimated_weeks - 1
                   THEN [run EXCEPT !.pc = "write", !.week = run.start]
                   ELSE [run EXCEPT !.week = @ + 1]]
        /\ UNCHANGED <<resource_calendar, OtherTables>>

\* one pass of "for week in range(start_week, end_week + 1):
\* allocate_resource(...)"; after the last week the task is appended
WriteAllocation(process) ==
    LET run == in_flight[process]
        project == Head(run.projects)
        end_week == run.start + project.estimated_weeks - 1
        r == allocate_resource(resource_calendar, project.required_crew_type,
                               run.week, project.crew_size,
                               ReservationType(project))
    IN  /\ run.pc = "write"
        /\ resource_calendar' = r.calendar
        /\ in_flight' = [in_flight EXCEPT ![process] =
              IF r.ret = "IntegrityError" THEN [run EXCEPT !.pc = "raised"]
              ELSE IF run.week = end_week
              THEN [run EXCEPT
                       !.pc = "next",
                       !.scheduled = Append(@,
                           ScheduledEntry(project, run.start, end_week,
                               compute_deadline_status(end_week,
                                                       project.deadline_week))),
                       !.projects = Tail(@),
                       !.start = 0,
                       !.week = 0]
              ELSE [run EXCEPT !.week = @ + 1]]
        /\ UNCHANGED OtherTables

\* ------------------------------------------------------------------------
\* Scoring engine (scoring.py, config.py); scores in thousandths
\* ------------------------------------------------------------------------
SCORING_WEIGHTS ==
    [safety |-> 150, mandate |-> 150, benefit |-> 250, urgency |-> 200,
     feasibility |-> 150]

EQUITY_CONFIG ==
    [underserved_threshold |-> 600, overserved_threshold |-> 1400,
     multiplier_strength |-> 250, clamp_low |-> 0 - 500, clamp_high |-> 500]

\* the multiplier is kept in units of 1/4000, in which 1 + 0.25 * score is
\* exact for a score in thousandths
MultiplierScale == 4 * ScoreScale

Min(a, b) == IF a <= b THEN a ELSE b

\* CompositeScorer.__init__: keeps the ratios and the configured weights
CompositeScorer_init(district_service_ratios) ==
    [ret |-> "ok",
     district_ratios |-> district_service_ratios,
     weights |-> SCORING_WEIGHTS]

\* an equity multiplier without the clamp on the equity score
compute_equity_multiplier_unclamped(district_ratios, district_id) ==
    IF district_id = NULL \/ district_id \notin DOMAIN district_ratios
    THEN [multiplier |-> MultiplierScale, tier |-> "average"]
    ELSE LET service_ratio == district_ratios[district_id]
             equity_score == ScoreScale - service_ratio
         IN  [multiplier |-> MultiplierScale
                  + (EQUITY_CONFIG.multiplier_strength * equity_score * 4)
                       \div ScoreScale,
              tier |-> "average"]

\* compute_equity_multiplier returns (multiplier, tier)
compute_equity_multiplier(district_ratios, district_id) ==
    IF district_id = NULL \/ district_id \notin DOMAIN district_ratios
    THEN [multiplier |-> MultiplierScale, tier |-> "average"]
    ELSE LET service_ratio == district_ratios[district_id]
             tier == IF service_ratio < EQUITY_CONFIG.underserved_threshold
                     THEN "underserved"
                     ELSE IF service_ratio > EQUITY_CONFIG.overserved_threshold
                     THEN "well_served"
                     ELSE "average"
             equity_score ==
                 Max(EQUITY_CONFIG.clamp_low,
                     Min(EQUITY_CONFIG.clamp_high, ScoreScale - service_ratio))
         IN  [multiplier |-> MultiplierScale
                  + (EQUITY_CONFIG.multiplier_strength * equity_score * 4)
                       \div ScoreScale,
              tier |-> tier]

\* MunicipalContext.scorer: the scorer is built on first use
load_scorer(district_service_ratios) ==
    LET scorer == CompositeScorer_init(district_service_ratios)
    IN  /\ result' = [NoCall EXCEPT !.op = "CompositeScorer",
                                    !.ret = scorer.ret,
                                    !.weights = scorer.weights]
        /\ UNCHANGED <<project_candidates, portfolio_decisions,
                       resource_calendar, schedule_tasks, audit_log, today,
                       in_flight>>

\* scorer.compute_equity_multiplier(district_id) on a scorer that holds the
\* given ratios
EquityMultiplier(district_service_ratios, district_id) ==
    LET scorer == CompositeScorer_init(district_service_ratios)
        r == compute_equity_multiplier(scorer.district_ratios, district_id)
    IN  /\ result' = [NoCall EXCEPT
                         !.op = "compute_equity_multiplier",
                         !.ret = "ok",
                         !.district_id = district_id,
                         !.service_ratio =
                             IF district_id \in DOMAIN district_service_ratios
                             THEN district_service_ratios[district_id]
                             ELSE NULL,
                         !.multiplier = r.multiplier,
                         !.equity_tier = r.tier]
        /\ UNCHANGED <<project_candidates, portfolio_decisions,
                       resource_calendar, schedule_tasks, audit_log, today,
                       in_flight>>

\* compute_district_service_ratios on the rows _load_district_service_ratios
\* reads: (projects_d / pop_d) / (city_projects / city_pop), populations in
\* units of 10,000; city_projects is the table's total "or 1"
compute_district_service_ratios(project_count) ==
    LET city_population == SumPopulation(DOMAIN districts) \div 10000
        total == SumCounts(project_count, DOMAIN project_count)
        city_projects == IF total = 0 THEN 1 ELSE total
    IN  [d \in DOMAIN districts |->
            (project_count[d] * city_population * ScoreScale)
               \div ((districts[d] \div 10000) * city_projects)]

\* create_project_candidate: "Determine equity tier from multiplier"
equity_tier_of(equity_multiplier) ==
    IF equity_multiplier * 100 > 105 * MultiplierScale THEN "underserved"
    ELSE IF equity_multiplier * 100 < 95 * MultiplierScale THEN "well_served"
    ELSE "average"

\* create_project_candidate on a database whose district_allocations table
\* holds the given project counts: the row carries the equity tier and the
\* multiplier of the issue's district
create_scored_candidate(project_count, issue_id, estimated_weeks, crew_size, feasibility_estimate) ==
    LET scorer == CompositeScorer_init(compute_district_service_ratios(project_count))
        issue == issues[issue_id]
        equity == compute_equity_multiplier(scorer.district_ratios,
                                            issue.district_id)
    IN  /\ Len(project_candidates) < MaxProjects
        /\ issue_id \in IssueIds
        /\ project_candidates' = Append(project_candidates,
              [issue_id |-> issue_id,
               estimated_cost |-> issue.estimated_cost,
               estimated_weeks |-> estimated_weeks,
               required_crew_type |-> CREW_MAPPING(issue.category),
               crew_size |-> crew_size,
               safety_score |-> TIER_VALUES_safety(issue.safety_tier),
               mandate_score |-> TIER_VALUES_mandate(issue.mandate_tier),
               urgency_score |-> score_urgency(issue.urgency_days),
               feasibility_estimate |-> feasibility_estimate,
               equity_tier |-> equity_tier_of(equity.multiplier),
               equity_multiplier |-> equity.multiplier])
        /\ audit_log' = Append(audit_log,
              [event_type |-> "PROJECT_SCORED",
               project_id |-> Len(project_candidates) + 1,
               detail |-> "NULL"])
        /\ result' = [NoCall EXCEPT
              !.op = "create_project_candidate",
              !.ret = "created",
              !.project_id = Len(project_candidates) + 1,
              !.district_id = issue.district_id,
              !.service_ratio = scorer.district_ratios[issue.district_id],
              !.multiplier = equity.multiplier,
              !.equity_tier = equity.tier]
        /\ UNCHANGED <<portfolio_decisions, resource_calendar, schedule_tasks,
                       today, in_flight>>

\* ------------------------------------------------------------------------
\* Specifications
\* ------------------------------------------------------------------------
Actors == {"admin"}
ReservationTypes == {"soft", "hard"}
FeasibilityOverrides == {NULL, 500}

Form(inputs) ==
    \E input \in inputs :
        create_project_candidate(input[1], input[2], input[3], ScoreScale)

Approve(ranks, confirmations) ==
    \E p \in 1..MaxProjects, r \in ranks, rc \in confirmations :
        approve_project(p, r, rc)

\* the pipeline's governance phase: every candidate is approved at most once
ApproveOnce(ranks, confirmations) ==
    \E p \in 1..MaxProjects, r \in ranks, rc \in confirmations :
        /\ \A i \in DOMAIN portfolio_decisions :
              portfolio_decisions[i].project_id # p
        /\ approve_project(p, r, rc)

Defer == \E p \in 1..MaxProjects : defer_project(p)

Reject == \E p \in 1..MaxProjects : reject_project(p)

Schedule == \E scheduler \in Schedulers : schedule(scheduler)

\* direct allocate_resource calls: a whole water-crew week, in the first week
\* of the calendar or in a week the calendar does not hold
AllocateAmounts == {RESOURCE_CAPACITIES["water_crew"]}

Allocate ==
    \E w \in {1, planning_horizon_weeks + 1}, n \in AllocateAmounts, k \in ReservationTypes :
        AllocateResource("water_crew", w, n, k)

Release == \E p \in 1..MaxProjects : release_soft_reservations(p)

Confirm(overrides) ==
    \E p \in 1..MaxProjects, approved \in BOOLEAN, actor \in Actors,
       o \in overrides :
        confirm_project(p, approved, actor, o)

\* The ledger under its three writers.  create_project_candidate(issue_id,
\* estimated_weeks, crew_size) inputs: water-crew work (capacity 3 a week),
\* one project that waits for confirmation (soft) and one that does not (hard)
LedgerInputs == {<<1, 2, 2>>, <<10, 1, 2>>}

Next ==
    \/ Form(LedgerInputs)
    \/ ApproveOnce({1}, {FALSE})
    \/ Schedule
    \/ run_scheduler
    \/ save_schedule
    \/ Allocate
    \/ Release

Spec == Init /\ [][Next]_vars

\* The confirmation window: a project that waits for confirmation is
\* scheduled, confirmed or not, and released while the clock moves on
ExpiryInputs == {<<1, 2, 2>>}

\* the day a confirmation deadline set on day 0 falls, and the days after it
ExpiryDays ==
    confirmation_timeout_days..(confirmation_timeout_days + MaxLate)

NextExpiry ==
    \/ Form(ExpiryInputs)
    \/ Approve({1}, {FALSE})
    \/ save_schedule
    \/ Release
    \/ Confirm({NULL})
    \/ AdvanceClock(ExpiryDays)

SpecExpiry == Init /\ [][NextExpiry]_vars

\* The portfolio allocator and the confirmation workflow: issues on both
\* sides of the budget, of the cost trigger ($10M) and of the safety trigger
GovInputs == {<<1, 1, 1>>, <<8, 1, 1>>, <<10, 1, 1>>, <<11, 1, 1>>}

NextGov ==
    \/ Form(GovInputs)
    \/ Approve({1}, BOOLEAN)
    \/ Defer
    \/ Reject
    \/ Confirm({NULL})
    \/ AdvanceClock({confirmation_timeout_days})

SpecGov == Init /\ [][NextGov]_vars

\* The confirmation workflow over a scheduled project: a project that waits
\* for confirmation is approved, deferred or rejected by the allocator,
\* scheduled, and confirmed or rejected by a human, with and without a
\* feasibility override
ConfirmInputs == {<<1, 1, 2>>}

NextConfirm ==
    \/ Form(ConfirmInputs)
    \/ ApproveOnce({1}, {FALSE})
    \/ Defer
    \/ Reject
    \/ save_schedule
    \/ Confirm(FeasibilityOverrides)

SpecConfirm == Init /\ [][NextConfirm]_vars

\* The tiered selection as a function of the candidate table.  The rows are
\* those create_project_candidate writes for an issue, with the composite
\* score the scorer gave them taken from two levels
TierIssues == {1, 2, 3, 8, 10, 12}
CompositeScores == {400, 600}

CandidateRow(issue_id, composite_score) ==
    [issue_id |-> issue_id,
     estimated_cost |-> issues[issue_id].estimated_cost,
     estimated_weeks |-> 1,
     required_crew_type |-> CREW_MAPPING(issues[issue_id].category),
     crew_size |-> 1,
     safety_score |-> TIER_VALUES_safety(issues[issue_id].safety_tier),
     mandate_score |-> TIER_VALUES_mandate(issues[issue_id].mandate_tier),
     urgency_score |-> score_urgency(issues[issue_id].urgency_days),
     feasibility_estimate |-> ScoreScale,
     composite_score |-> composite_score]

CandidateTables ==
    UNION {[1..n -> {CandidateRow(i, c) : i \in TierIssues,
                                          c \in CompositeScores}] :
              n \in 0..MaxCandidates}

InitTier ==
    /\ project_candidates \in CandidateTables
    /\ portfolio_decisions = <<>>
    /\ resource_calendar = seed_resource_calendar
    /\ schedule_tasks = <<>>
    /\ audit_log = <<>>
    /\ today = 0
    /\ result = ProjectOutcome("init", "NULL", 0)
    /\ in_flight = NoRuns

NextTier == run_tiered_selection

SpecTier == InitTier /\ [][NextTier]_vars

\* The scheduler selection as a function of the approved set: P approved
\* projects over R crew types, the first T of them urgent (7 days), the
\* others not (90 days).  The projects are longer than the planning horizon
\* (seed_large_scenario draws up to 24 weeks), so that no scheduler places
\* any of them
CrewTypeSeq == <<"water_crew", "electrical_crew", "construction_crew">>

ApprovedRow(i, n_types, tight) ==
    [issue_id |-> i,
     estimated_cost |-> 1000000,
     estimated_weeks |-> Horizon + 1,
     required_crew_type |-> CrewTypeSeq[((i - 1) % n_types) + 1],
     crew_size |-> 1,
     safety_score |-> 0,
     mandate_score |-> 0,
     urgency_score |-> IF i <= tight THEN score_urgency(7) ELSE score_urgency(90),
     feasibility_estimate |-> ScoreScale]

InitSelect ==
    /\ \E n \in 0..MaxApproved, n_types \in 1..Len(CrewTypeSeq) :
          \E tight \in 0..n :
              /\ n_types <= n \/ n_types = 1
              /\ project_candidates =
                    [i \in 1..n |-> ApprovedRow(i, n_types, tight)]
              /\ portfolio_decisions =
                    [i \in 1..n |->
                        PortfolioDecision(i, "APPROVED", 1000000, i, 13,
                                          FALSE, NULL)]
    /\ resource_calendar = seed_resource_calendar
    /\ schedule_tasks = <<>>
    /\ audit_log = <<>>
    /\ today = 0
    /\ result = ProjectOutcome("init", "NULL", 0)
    /\ in_flight = NoRuns

NextSelect ==
    \/ select_scheduler
    \/ run_scheduler
    \/ save_schedule

SpecSelect == InitSelect /\ [][NextSelect]_vars

\* The three schedulers as functions of the approved set and the ledger.
\* Every project needs the water crew (capacity 3 a week).  A kind is
\* <<estimated_weeks, crew_size, urgency_days>>: one-week work for two crews
\* that is urgent (due in week 1) or not (due in week 12), two-week work due
\* in week 3, and one-crew work due in 180 days (deadline week 25, beyond
\* the horizon).  The i-th project has rank 3 + i
SchedKinds ==
    {<<1, 2, 7>>, <<1, 2, 90>>, <<2, 2, 21>>, <<1, 1, 180>>,
     <<LongHorizon + 1, 1, 7>>}

\* a decision that never required confirmation, one that waits for it, and
\* one a human confirmed
DecisionStates == {"APPROVED", "PENDING", "CONFIRMED"}

\* the ledger before the run: untouched, two of the three crews taken in
\* week 1, or every crew taken in all weeks but the last
LedgerStates == {"free", "first_week_partly", "busy_until_last"}

SchedRow(i, kind) ==
    [issue_id |-> i,
     estimated_cost |-> 1000000,
     estimated_weeks |-> kind[1],
     required_crew_type |-> "water_crew",
     crew_size |-> kind[2],
     safety_score |-> 0,
     mandate_score |-> 0,
     urgency_score |-> score_urgency(kind[3]),
     feasibility_estimate |-> ScoreScale]

SchedDecision(i, kind, state) ==
    LET deadline_week == Max(1, kind[3] \div 7)
        pending == PortfolioDecision(i, "APPROVED_WITH_CONDITIONS", 1000000,
                       3 + i, deadline_week, TRUE, confirmation_timeout_days)
    IN  CASE state = "APPROVED" ->
                PortfolioDecision(i, "APPROVED", 1000000, 3 + i, deadline_week,
                                  FALSE, NULL)
          [] state = "PENDING" -> pending
          [] OTHER -> [pending EXCEPT !.decision = "APPROVED",
                                      !.confirmed_at = 0,
                                      !.confirmed_by = "admin"]

SchedLedger(state) ==
    [s \in ResourceTypes \X (1..LongHorizon) |->
        [capacity |-> RESOURCE_CAPACITIES[s[1]],
         soft_allocated |-> 0,
         hard_allocated |->
            IF s[1] # "water_crew" THEN 0
            ELSE IF state = "first_week_partly" /\ s[2] = 1 THEN 2
            ELSE IF state = "busy_until_last" /\ s[2] < LongHorizon
                 THEN RESOURCE_CAPACITIES[s[1]]
            ELSE 0]]

\* the approved set: one project, or two
SchedProjects == SchedKinds \X DecisionStates

SchedBatches ==
    {<<a>> : a \in SchedProjects}
        \cup {<<a, b>> : a \in SchedProjects, b \in SchedProjects}

InitSched ==
    /\ \E batch \in SchedBatches :
          /\ project_candidates =
                [i \in DOMAIN batch |-> SchedRow(i, batch[i][1])]
          /\ portfolio_decisions =
                [i \in DOMAIN batch |->
                    SchedDecision(i, batch[i][1], batch[i][2])]
    /\ \E state \in LedgerStates : resource_calendar = SchedLedger(state)
    /\ schedule_tasks = <<>>
    /\ audit_log = <<>>
    /\ today = 0
    /\ result = ProjectOutcome("init", "NULL", 0)
    /\ in_flight = NoRuns

\* one schedule() call on the drawn tables
ScheduleOnce(scheduler) ==
    /\ result.op = "init"
    /\ schedule(scheduler)

NextSched ==
    \/ ScheduleOnce("GreedyScheduler")
    \/ ScheduleOnce("GreedyWithRepairScheduler")
    \/ ScheduleOnce("CPSATScheduler")

SpecSched == InitSched /\ [][NextSched]_vars

\* The scorer as a function of the district and its service ratio: every
\* ratio from 0 to MaxRatio thousandths, two far larger ones, and districts
\* the scorer holds no ratio for
ServiceRatios == (0..MaxRatio) \cup {10 * MaxRatio, 1000 * ScoreScale}

DistrictArgs == DOMAIN districts \cup {NULL}

NoRatios == [d \in {} |-> 0]

LoadScorer ==
    /\ result.op = "init"
    /\ load_scorer(NoRatios)

Multiplier ==
    /\ result.op = "init"
    /\ \E d \in DistrictArgs :
          \/ EquityMultiplier(NoRatios, d)
          \/ \E ratio \in ServiceRatios, known \in DOMAIN districts :
                EquityMultiplier([x \in {known} |-> ratio], d)

\* district_allocations with rows for at most two districts
AllocationTables ==
    {[d \in DOMAIN districts |->
         IF d = a[1] THEN a[2] ELSE IF d = b[1] THEN b[2] ELSE 0] :
       a \in (DOMAIN districts) \X (0..MaxProjectCount),
       b \in (DOMAIN districts) \X (0..MaxProjectCount)}

FormCandidate ==
    /\ result.op = "init"
    /\ \E project_count \in AllocationTables, issue_id \in IssueIds :
          create_scored_candidate(project_count, issue_id, 1, 1, ScoreScale)

NextScore ==
    \/ LoadScorer
    \/ Multiplier
    \/ FormCandidate

SpecScore == Init /\ [][NextScore]_vars

\* Two processes schedule the same approved set on one database while the
\* soft reservations of a project are released; a schedule may have been
\* saved before the two runs start.
RaceKinds == {<<1, 2, 7>>, <<2, 2, 7>>, <<1, 1, 7>>}

RaceProjects == RaceKinds \X {"APPROVED", "PENDING"}

RaceBatches ==
    {<<a>> : a \in RaceProjects}
        \cup {<<a, b>> : a \in RaceProjects, b \in RaceProjects}

RaceLedger ==
    [s \in ResourceTypes \X (1..RaceHorizon) |->
        [capacity |-> RESOURCE_CAPACITIES[s[1]],
         soft_allocated |-> 0, hard_allocated |-> 0]]

InitRace ==
    /\ \E batch \in RaceBatches :
          /\ project_candidates =
                [i \in DOMAIN batch |-> SchedRow(i, batch[i][1])]
          /\ portfolio_decisions =
                [i \in DOMAIN batch |->
                    SchedDecision(i, batch[i][1], batch[i][2])]
    /\ resource_calendar = RaceLedger
    /\ schedule_tasks = <<>>
    /\ audit_log = <<>>
    /\ today = 0
    /\ result = ProjectOutcome("init", "NULL", 0)
    /\ in_flight = NoRuns

ExpiryRelease ==
    \E i \in DOMAIN project_candidates :
        /\ \E t \in DOMAIN schedule_tasks : SoftTask(schedule_tasks[t], i)
        /\ release_soft_reservations(i)

\* a whole run whose schedule is saved, before the two processes start
FirstSave ==
    /\ result.op = "init"
    /\ in_flight = NoRuns
    /\ save_schedule

\* save_schedule called once more for the same approved set
SecondSave ==
    /\ schedule_tasks # <<>>
    /\ in_flight = NoRuns
    /\ SaveSchedule(MaxTasks + 1)

NextRace ==
    \/ FirstSave
    \/ SecondSave
    \/ \E process \in Processes : BeginRun(process)
    \/ \E process \in Processes : NextProject(process)
    \/ \E process \in Processes : ReadCapacity(process)
    \/ \E process \in Processes : WriteAllocation(process)
    \/ ExpiryRelease

SpecRace == InitRace /\ [][NextRace]_vars

\* ------------------------------------------------------------------------
\* Properties of the resource ledger (checked under Spec)
\* ------------------------------------------------------------------------
Slots == DOMAIN resource_calendar

Allocated(slot) == slot.soft_allocated + slot.hard_allocated

\* C1: after any sequence of scheduler runs (all three classes),
\* allocate_resource calls and release_soft_reservations calls on the freshly
\* seeded calendar, every slot has soft_allocated + hard_allocated <= capacity.
C1_LedgerWithinCapacity ==
    \A s \in Slots :
        Allocated(resource_calendar[s]) <= resource_calendar[s].capacity

\* C1 is met at its edge: the CP-SAT scheduler has just placed a project in
\* a calendar that holds a week filled to its capacity
C1_FullSlotReached ==
    /\ result.op = "schedule"
    /\ result.scheduler = "CPSATScheduler"
    /\ result.scheduled # <<>>
    /\ \E s \in Slots :
          /\ Allocated(resource_calendar[s]) = resource_calendar[s].capacity
          /\ resource_calendar[s].hard_allocated > 0

\* the slot a direct allocate_resource call named, when the call would take
\* it past its capacity
OverAllocation(call) ==
    /\ call.op = "allocate_resource"
    /\ HasSlot(resource_calendar, call.resource_type, call.week)
    /\ Allocated(resource_calendar[<<call.resource_type, call.week>>])
          + call.amount
          > resource_calendar[<<call.resource_type, call.week>>].capacity

\* C2: allocate_resource on a slot where soft + hard + amount > capacity
\* fails (the caller gets the error; the amount is neither clamped nor
\* granted) and leaves the slot's soft_allocated and hard_allocated as they
\* were.
C2_OverAllocationFails ==
    [][OverAllocation(result') =>
          /\ result'.ret = "IntegrityError"
          /\ resource_calendar'[<<result'.resource_type, result'.week>>]
                = resource_calendar[<<result'.resource_type, result'.week>>]]_vars

\* C2's case: a refused allocation on a week that already holds reservations
C2_RefusedAllocation ==
    /\ result.op = "allocate_resource"
    /\ result.ret = "IntegrityError"
    /\ HasSlot(resource_calendar, result.resource_type, result.week)
    /\ resource_calendar[<<result.resource_type, result.week>>].soft_allocated > 0
    /\ Allocated(resource_calendar[<<result.resource_type, result.week>>])
          < resource_calendar[<<result.resource_type, result.week>>].capacity

\* ------------------------------------------------------------------------
\* Properties of the expiry release (checked under SpecExpiry)
\* ------------------------------------------------------------------------
\* C3: after any sequence of scheduling, confirmation and
\* release_soft_reservations calls, soft_allocated >= 0 and
\* hard_allocated >= 0 in every slot.
C3_AllocationsNonNegative ==
    \A s \in Slots :
        /\ resource_calendar[s].soft_allocated >= 0
        /\ resource_calendar[s].hard_allocated >= 0

ReleaseCall(call) == call.op = "release_soft_reservations"

DecisionsOf(project_id) ==
    {i \in DOMAIN portfolio_decisions :
        portfolio_decisions[i].project_id = project_id}

SoftTasksOf(project_id) ==
    {i \in DOMAIN schedule_tasks : SoftTask(schedule_tasks[i], project_id)}

ReleaseChangesNothing ==
    /\ resource_calendar' = resource_calendar
    /\ schedule_tasks' = schedule_tasks
    /\ portfolio_decisions' = portfolio_decisions

\* C4: release_soft_reservations run again for a project whose soft tasks
\* were already expired changes no ledger slot, no schedule task and no
\* decision.
C4_ReleaseIdempotent ==
    [][(/\ ReleaseCall(result')
        /\ SoftTasksOf(result'.project_id) # {}
        /\ \A i \in SoftTasksOf(result'.project_id) :
              schedule_tasks[i].status = "EXPIRED")
       => ReleaseChangesNothing]_vars

\* a decision the sweep is meant for: waiting, unconfirmed, deadline passed
Overdue(d) ==
    /\ d.decision = "APPROVED_WITH_CONDITIONS"
    /\ d.confirmed_at = NULL
    /\ d.confirmation_deadline # NULL
    /\ d.confirmation_deadline < today

\* C5: releasing a project whose decision is APPROVED_WITH_CONDITIONS,
\* unconfirmed and past its confirmation deadline subtracts each soft task's
\* crew from soft_allocated in the task's weeks and resource type and nowhere
\* else, marks those tasks EXPIRED and sets the decision to EXPIRED.
C5_SweepExpiresDecision ==
    [][(/\ ReleaseCall(result')
        /\ SoftTasksOf(result'.project_id) # {}
        /\ \E i \in DecisionsOf(result'.project_id) :
              Overdue(portfolio_decisions[i]))
       => /\ resource_calendar' =
                ReleaseTasks(resource_calendar, schedule_tasks,
                             result'.project_id)
          /\ schedule_tasks' = ExpireTasks(schedule_tasks, result'.project_id)
          /\ \A i \in DecisionsOf(result'.project_id) :
                Overdue(portfolio_decisions[i])
                   => portfolio_decisions'[i].decision = "EXPIRED"]_vars

\* C5's case: an overdue decision whose project has just been released
C5_OverdueReleased ==
    /\ ReleaseCall(result)
    /\ SoftTasksOf(result.project_id) # {}
    /\ \E i \in DecisionsOf(result.project_id) :
          Overdue(portfolio_decisions[i])

\* a decision the sweep is to leave alone: resolved, or still inside its
\* confirmation window
Resolved(d) ==
    \/ d.decision \in {"REJECTED", "DEFERRED", "EXPIRED"}
    \/ d.decision = "APPROVED" /\ d.confirmed_at # NULL

NotYetDue(d) ==
    /\ d.decision = "APPROVED_WITH_CONDITIONS"
    /\ d.confirmation_deadline # NULL
    /\ d.confirmation_deadline >= today

\* C6: the release changes nothing (ledger, schedule tasks, decision) for a
\* project whose decision is already resolved or whose confirmation deadline
\* has not yet passed.
C6_ReleaseLeavesResolvedAlone ==
    [][(/\ ReleaseCall(result')
        /\ DecisionsOf(result'.project_id) # {}
        /\ \A i \in DecisionsOf(result'.project_id) :
              Resolved(portfolio_decisions[i]) \/ NotYetDue(portfolio_decisions[i]))
       => ReleaseChangesNothing]_vars

\* ------------------------------------------------------------------------
\* Properties of the portfolio allocator (checked under SpecGov)
\* ------------------------------------------------------------------------
\* the budget committed by the decisions in state APPROVED or
\* APPROVED_WITH_CONDITIONS
RECURSIVE CommittedBudget(_)
CommittedBudget(decisions) ==
    IF decisions = <<>> THEN 0
    ELSE (IF Head(decisions).decision \in {"APPROVED", "APPROVED_WITH_CONDITIONS"}
             /\ Head(decisions).allocated_budget # NULL
          THEN Head(decisions).allocated_budget ELSE 0)
         + CommittedBudget(Tail(decisions))

\* C7: after any sequence of approve_project, defer_project, reject_project
\* and confirm_project calls, the allocated_budget of the decisions in state
\* APPROVED or APPROVED_WITH_CONDITIONS sums to at most the quarterly budget
\* ($75,000,000).
C7_BudgetNeverExceeded ==
    CommittedBudget(portfolio_decisions) <= 75000000

\* C7's case: a budget given back by a human rejection and committed again,
\* so that the rows together carry more than the quarterly budget while the
\* counted ones do not
C7_BudgetReusedAfterRejection ==
    \E i, j \in DOMAIN portfolio_decisions :
        /\ portfolio_decisions[i].decision = "REJECTED"
        /\ portfolio_decisions[i].allocated_budget # NULL
        /\ portfolio_decisions[j].decision
              \in {"APPROVED", "APPROVED_WITH_CONDITIONS"}
        /\ portfolio_decisions[i].allocated_budget
              + CommittedBudget(portfolio_decisions) > 75000000

ApproveCall(call) ==
    call.op = "approve_project" /\ ProjectExists(call.project_id)

CostOf(project_id) == project_candidates[project_id].estimated_cost

\* C8: approve_project on a project whose cost exceeds the remaining budget
\* returns the insufficient-budget error and writes neither a decision row
\* nor an audit event: the project is not deferred or rejected on the
\* caller's behalf.
C8_InsufficientBudgetRecordsNothing ==
    [][(/\ ApproveCall(result')
        /\ CostOf(result'.project_id)
              > 75000000 - CommittedBudget(portfolio_decisions))
       => /\ result'.ret = "insufficient_budget"
          /\ portfolio_decisions' = portfolio_decisions
          /\ audit_log' = audit_log]_vars

\* C8's case: an approval refused for the budget
C8_ApprovalRefused ==
    /\ ApproveCall(result)
    /\ result.ret = "insufficient_budget"
    /\ CostOf(result.project_id)
          > 75000000 - CommittedBudget(portfolio_decisions)

DistrictOf(project_id) ==
    issues[project_candidates[project_id].issue_id].district_id

\* C9: approve_project records neither APPROVED nor
\* APPROVED_WITH_CONDITIONS for a project whose district's projected spend
\* (allocated so far plus the project's cost) exceeds 2.0 x the district's
\* fair share; the decision it records is DEFERRED.
C9_EquityBreachDeferred ==
    [][(/\ ApproveCall(result')
        /\ CostOf(result'.project_id)
              <= 75000000 - CommittedBudget(portfolio_decisions)
        /\ ~ check_equity_constraint(DistrictOf(result'.project_id),
                                     CostOf(result'.project_id)))
       => /\ result'.ret \notin {"APPROVED", "APPROVED_WITH_CONDITIONS"}
          /\ Len(portfolio_decisions') = Len(portfolio_decisions) + 1
          /\ portfolio_decisions'[Len(portfolio_decisions')].project_id
                = result'.project_id
          /\ portfolio_decisions'[Len(portfolio_decisions')].decision
                = "DEFERRED"]_vars

\* C9's case: an approval just recorded for a project that breaks the
\* equity constraint of its district
C9_EquityBreachApproved ==
    /\ ApproveCall(result)
    /\ result.ret \in {"APPROVED", "APPROVED_WITH_CONDITIONS"}
    /\ ~ check_equity_constraint(DistrictOf(result.project_id),
                                 CostOf(result.project_id))

ConfirmCall(call) == call.op = "confirm_project"

PendingOf(project_id) ==
    {i \in DecisionsOf(project_id) :
        portfolio_decisions[i].decision = "APPROVED_WITH_CONDITIONS"}

TasksOf(tasks, project_id) ==
    {i \in DOMAIN tasks : tasks[i].project_id = project_id}

\* C11: a decision record changes state only from APPROVED_WITH_CONDITIONS,
\* and only to APPROVED (human confirm), REJECTED (human reject) or EXPIRED
\* (timeout); a record in state APPROVED, DEFERRED, REJECTED or EXPIRED is
\* never changed by any operation.
C11_DecisionTransitions ==
    [][\A i \in DOMAIN portfolio_decisions :
          /\ i \in DOMAIN portfolio_decisions'
          /\ portfolio_decisions'[i] # portfolio_decisions[i]
                => /\ portfolio_decisions[i].decision = "APPROVED_WITH_CONDITIONS"
                   /\ portfolio_decisions'[i].decision
                         \in {"APPROVED", "REJECTED", "EXPIRED"}
                   /\ portfolio_decisions'[i].decision = "APPROVED"
                         => ConfirmCall(result') /\ result'.approved
                   /\ portfolio_decisions'[i].decision = "REJECTED"
                         => ConfirmCall(result') /\ ~ result'.approved]_vars

\* C11's case: a human rejection has just been entered for a project whose
\* decision a human had already confirmed, and the record is still APPROVED
C11_RejectionAfterConfirmation ==
    /\ ConfirmCall(result)
    /\ ~ result.approved
    /\ result.ret = "True"
    /\ \E i \in DecisionsOf(result.project_id) :
          /\ portfolio_decisions[i].decision = "APPROVED"
          /\ portfolio_decisions[i].confirmed_at # NULL

\* C12: confirm_project called for a project whose decision is not
\* currently APPROVED_WITH_CONDITIONS and unconfirmed changes nothing, for
\* approved=true and approved=false alike: decisions, schedule tasks, project
\* candidates and ledger are left as they were.
C12_ConfirmOnlyActsOnPending ==
    [][(ConfirmCall(result') /\ PendingOf(result'.project_id) = {})
       => /\ portfolio_decisions' = portfolio_decisions
          /\ schedule_tasks' = schedule_tasks
          /\ project_candidates' = project_candidates
          /\ resource_calendar' = resource_calendar]_vars

\* C13: after confirm_project(approved=false) on an
\* APPROVED_WITH_CONDITIONS decision, the decision is REJECTED and no
\* schedule task of that project remains.
C13_RejectionCancelsTasks ==
    [][(/\ ConfirmCall(result')
        /\ ~ result'.approved
        /\ PendingOf(result'.project_id) # {})
       => /\ \A i \in PendingOf(result'.project_id) :
                portfolio_decisions'[i].decision = "REJECTED"
          /\ TasksOf(schedule_tasks', result'.project_id) = {}]_vars

\* C13's case: a human rejection of a project that save_schedule had given
\* a task
C13_ScheduledProjectRejected ==
    /\ ConfirmCall(result)
    /\ ~ result.approved
    /\ \E i \in DecisionsOf(result.project_id) :
          /\ portfolio_decisions[i].decision = "REJECTED"
          /\ portfolio_decisions[i].confirmed_by \in Actors
    /\ \E k \in DOMAIN audit_log :
          /\ audit_log[k].event_type = "TASK_SCHEDULED"
          /\ audit_log[k].project_id = result.project_id
    /\ TasksOf(schedule_tasks, result.project_id) = {}

\* C14: confirm_project(approved=true) with a feasibility override on an
\* APPROVED_WITH_CONDITIONS decision succeeds: the decision becomes APPROVED,
\* the override becomes the project's effective feasibility, and an audit
\* record of the override is written.
C14_OverrideConfirms ==
    [][(/\ ConfirmCall(result')
        /\ result'.approved
        /\ result'.feasibility_override # NULL
        /\ PendingOf(result'.project_id) # {})
       => /\ result'.ret = "True"
          /\ \A i \in PendingOf(result'.project_id) :
                portfolio_decisions'[i].decision = "APPROVED"
          /\ project_candidates'[result'.project_id].feasibility_estimate
                = result'.feasibility_override
          /\ Len(audit_log') = Len(audit_log) + 1
          /\ audit_log'[Len(audit_log')].project_id = result'.project_id]_vars

\* the ledger with the crew of every soft task of the project moved from
\* soft_allocated to hard_allocated in the task's weeks
RECURSIVE UpgradeLedger(_, _, _)
UpgradeLedger(calendar, tasks, project_id) ==
    IF tasks = <<>> THEN calendar
    ELSE LET task == Head(tasks)
             moved ==
               [s \in DOMAIN calendar |->
                   IF /\ SoftTask(task, project_id)
                      /\ s[1] = task.resource_type
                      /\ s[2] \in task.start_week..task.end_week
                   THEN [calendar[s] EXCEPT
                            !.soft_allocated = @ - task.crew_assigned,
                            !.hard_allocated = @ + task.crew_assigned]
                   ELSE calendar[s]]
         IN  UpgradeLedger(moved, Tail(tasks), project_id)

\* C15: when a human confirms a project whose schedule tasks hold soft
\* reservations, each task's reservation_type becomes hard and, for every
\* week of the task, its crew size moves from soft_allocated to
\* hard_allocated.
C15_ConfirmationUpgradesReservations ==
    [][(/\ ConfirmCall(result')
        /\ result'.approved
        /\ result'.ret = "True"
        /\ PendingOf(result'.project_id) # {}
        /\ SoftTasksOf(result'.project_id) # {})
       => /\ \A i \in SoftTasksOf(result'.project_id) :
                /\ i \in DOMAIN schedule_tasks'
                /\ schedule_tasks'[i].reservation_type = "hard"
          /\ resource_calendar' =
                UpgradeLedger(resource_calendar, schedule_tasks,
                              result'.project_id)]_vars

\* C16: in every reachable state a decision has its confirmation fields
\* populated if and only if its state is APPROVED_WITH_CONDITIONS: a record
\* in that state requires confirmation and carries a deadline, a record in
\* any other state carries none of the confirmation fields.
C16_ConfirmationFieldsIffPending ==
    \A i \in DOMAIN portfolio_decisions :
        LET d == portfolio_decisions[i]
        IN  IF d.decision = "APPROVED_WITH_CONDITIONS"
            THEN d.requires_confirmation /\ d.confirmation_deadline # NULL
            ELSE /\ ~ d.requires_confirmation
                 /\ d.confirmation_deadline = NULL
                 /\ d.confirmed_at = NULL
                 /\ d.confirmed_by = "NULL"

\* ------------------------------------------------------------------------
\* Properties of the tiered selection (checked under SpecTier)
\* ------------------------------------------------------------------------
TierCall(call) == call.op = "run_tiered_selection" /\ call.ret = "ok"

\* the cost admitted in one phase, summed over the approved list
RECURSIVE PhaseSpend(_, _)
PhaseSpend(approved, phases) ==
    IF approved = <<>> THEN 0
    ELSE (IF Head(approved).phase \in phases
          THEN Head(approved).estimated_cost ELSE 0)
         + PhaseSpend(Tail(approved), phases)

AllPhases == {"MANDATE", "URGENT_CRITICAL", "VALUE_RANKED"}

\* C17: run_tiered_selection never admits more than 30% of the total
\* budget in the mandate phase, never more than 20% in the urgent-critical
\* phase, and the total admitted over the three phases never exceeds the
\* total budget, for every candidate set.
C17_PhaseCaps ==
    TierCall(result) =>
        /\ PhaseSpend(result.approved_list, {"MANDATE"}) <= 22500000
        /\ PhaseSpend(result.approved_list, {"URGENT_CRITICAL"}) <= 15000000
        /\ PhaseSpend(result.approved_list, AllPhases) <= 75000000

\* C17's case at the edges: the urgent-critical phase filled to exactly 20%
\* and the whole budget committed to the dollar, with a candidate turned
\* away
C17_BudgetFilledExactly ==
    /\ TierCall(result)
    /\ PhaseSpend(result.approved_list, {"URGENT_CRITICAL"}) = 15000000
    /\ PhaseSpend(result.approved_list, AllPhases) = 75000000
    /\ result.deferred_list # <<>>

Occurrences(list, project_id) ==
    Cardinality({i \in DOMAIN list : list[i].project_id = project_id})

\* C18: run_tiered_selection gives every candidate exactly one outcome:
\* each candidate appears exactly once across the approved list and the
\* deferred list.
C18_OneOutcomePerCandidate ==
    TierCall(result) =>
        \A project_id \in DOMAIN project_candidates :
            Occurrences(result.approved_list, project_id)
              + Occurrences(result.deferred_list, project_id) = 1

PhaseOrder(phase) ==
    CASE phase = "MANDATE" -> 1
      [] phase = "URGENT_CRITICAL" -> 2
      [] phase = "VALUE_RANKED" -> 3

\* C19: the candidates admitted by run_tiered_selection receive the
\* distinct ranks 1, 2, 3, ... in admission order, and every mandate-phase
\* admission ranks before every urgent-critical admission, which ranks
\* before every value-ranked admission.
C19_RanksFollowPhases ==
    TierCall(result) =>
        /\ \A i \in DOMAIN result.approved_list :
              result.approved_list[i].priority = i
        /\ \A i, j \in DOMAIN result.approved_list :
              PhaseOrder(result.approved_list[i].phase)
                 < PhaseOrder(result.approved_list[j].phase)
                => result.approved_list[i].priority
                      < result.approved_list[j].priority
        /\ \A i, j \in DOMAIN result.approved_list :
              i # j => result.approved_list[i].project_id
                          # result.approved_list[j].project_id

\* C19's case: one admission in each of the three phases
C19_ThreePhasesAdmitted ==
    /\ TierCall(result)
    /\ \A phase \in AllPhases :
          \E i \in DOMAIN result.approved_list :
              result.approved_list[i].phase = phase

\* ------------------------------------------------------------------------
\* Properties of the scheduler selection (checked under SpecSelect)
\* ------------------------------------------------------------------------
ApprovedDecisions ==
    {i \in DOMAIN portfolio_decisions :
        portfolio_decisions[i].decision
           \in {"APPROVED", "APPROVED_WITH_CONDITIONS"}}

\* P, R and the number of projects with urgency_score > 0.7
ApprovedCount == Cardinality(ApprovedDecisions)

ApprovedCrewTypes ==
    Cardinality({project_candidates[portfolio_decisions[i].project_id]
                    .required_crew_type : i \in ApprovedDecisions})

ApprovedUrgent ==
    Cardinality({i \in ApprovedDecisions :
        project_candidates[portfolio_decisions[i].project_id].urgency_score
           > 700})

\* the policy table; U <= 0.3 is ApprovedUrgent * 10 <= 3 * ApprovedCount
PolicyChoice ==
    IF ApprovedCount <= 10 /\ ApprovedCrewTypes <= 2 THEN "GreedyScheduler"
    ELSE IF ApprovedCount <= 20 /\ ApprovedUrgent * 10 <= 3 * ApprovedCount
    THEN "GreedyWithRepairScheduler"
    ELSE "CPSATScheduler"

SelectionCall(call) ==
    /\ call.op \in {"select_scheduler", "run_scheduler", "save_schedule"}
    /\ call.scheduler # "NULL"

\* C20: the scheduler chosen for P approved projects with R distinct crew
\* types and a fraction U of projects with urgency_score > 0.7 is Greedy iff
\* P <= 10 and R <= 2; otherwise Greedy-with-Repair iff P <= 20 and
\* U <= 0.3; otherwise the constraint scheduler; select_scheduler,
\* run_scheduler and save_schedule all make this choice for the same
\* approved set.
C20_SelectionPolicy ==
    /\ SelectionCall(result) => result.scheduler = PolicyChoice
    /\ LET projects == get_approved_projects(project_candidates,
                                             portfolio_decisions)
       IN  /\ SelectScheduler_select(projects) = SelectScheduler(projects)
           /\ SelectScheduler_save(projects) = SelectScheduler(projects)

\* C20's case at the edge of the table: save_schedule has chosen
\* Greedy-with-Repair for 20 projects of which exactly 30% are urgent
C20_RepairAtBothEdges ==
    /\ result.op = "save_schedule"
    /\ result.scheduler = "GreedyWithRepairScheduler"
    /\ ApprovedCount = 20
    /\ ApprovedUrgent = 6

\* ------------------------------------------------------------------------
\* Properties of the schedulers (checked under SpecSched)
\* ------------------------------------------------------------------------
\* a schedule() call that returned its two lists
ScheduleCall(call) == call.op = "schedule" /\ call.ret = "ok"

\* the projects the call was given
ScheduleInput == get_approved_projects(project_candidates, portfolio_decisions)

Placements(call, project_id) ==
    Cardinality({i \in DOMAIN call.scheduled :
                    call.scheduled[i].project_id = project_id})

Reports(call, project_id) ==
    Cardinality({i \in DOMAIN call.infeasible :
                    call.infeasible[i] = project_id})

\* some window inside the horizon has enough free crew for the project
WindowIn(calendar, project) ==
    \E start_week \in 1..planning_horizon_weeks :
        \A week \in start_week..(start_week + project.estimated_weeks - 1) :
            /\ week <= planning_horizon_weeks
            /\ calendar[<<project.required_crew_type, week>>].capacity
                 - calendar[<<project.required_crew_type, week>>].soft_allocated
                 - calendar[<<project.required_crew_type, week>>].hard_allocated
                 >= project.crew_size

\* the solver did not stop on its time limit
SolvedInTime(call) == call.solver_status \notin {"FEASIBLE", "UNKNOWN"}

\* C21: for each of the three schedulers and every combination of
\* durations, crew sizes and deadline weeks (deadline weeks beyond the
\* horizon included), every input project ends up in exactly one of the
\* task list and the infeasible list, and a project that is not placed
\* never makes another project, for which a window with enough capacity
\* exists in the ledger, be reported infeasible.
C21_EveryProjectAccountedFor ==
    (ScheduleCall(result) /\ SolvedInTime(result))
       => /\ \A i \in DOMAIN ScheduleInput :
                Placements(result, ScheduleInput[i].project_id)
                  + Reports(result, ScheduleInput[i].project_id) = 1
          /\ \A i \in DOMAIN ScheduleInput, j \in DOMAIN ScheduleInput :
                (/\ i # j
                 /\ Placements(result, ScheduleInput[i].project_id) = 0
                 /\ Reports(result, ScheduleInput[j].project_id) > 0)
                   => ~ WindowIn(resource_calendar, ScheduleInput[j])

\* the decision the scheduler read for a project
DecisionFor(project_id) ==
    portfolio_decisions[CHOOSE i \in DOMAIN portfolio_decisions :
                            /\ portfolio_decisions[i].project_id = project_id
                            /\ Counted(portfolio_decisions[i])]

\* the crew the placed tasks of one reservation type hold in a slot
RECURSIVE ReservedBy(_, _, _, _)
ReservedBy(scheduled, resource_type, week, reservation_type) ==
    IF scheduled = <<>> THEN 0
    ELSE LET t == Head(scheduled)
         IN  (IF /\ t.resource_type = resource_type
                 /\ t.reservation_type = reservation_type
                 /\ t.start_week <= week
                 /\ week <= t.end_week
              THEN t.crew_assigned ELSE 0)
             + ReservedBy(Tail(scheduled), resource_type, week, reservation_type)

\* C22: whichever scheduler placed it, every placed task carries reservation
\* type HARD when its project is confirmed or never required confirmation and
\* SOFT otherwise, and the ledger column incremented for the task's weeks
\* matches that type.
C22_ReservationTypeFollowsDecision ==
    [][ScheduleCall(result')
       => /\ \A k \in DOMAIN result'.scheduled :
                LET t == result'.scheduled[k]
                    d == DecisionFor(t.project_id)
                IN  t.reservation_type =
                       IF d.confirmed_at # NULL \/ ~ d.requires_confirmation
                       THEN "hard" ELSE "soft"
          /\ \A slot \in DOMAIN resource_calendar :
                /\ resource_calendar'[slot].soft_allocated
                     = resource_calendar[slot].soft_allocated
                         + ReservedBy(result'.scheduled, slot[1], slot[2], "soft")
                /\ resource_calendar'[slot].hard_allocated
                     = resource_calendar[slot].hard_allocated
                         + ReservedBy(result'.scheduled, slot[1], slot[2], "hard")]_vars

\* C22's case: the constraint scheduler has placed a project that waits for
\* confirmation next to one a human confirmed
C22_PendingAndConfirmedPlaced ==
    /\ ScheduleCall(result)
    /\ result.scheduler = "CPSATScheduler"
    /\ \E k \in DOMAIN result.scheduled :
          /\ result.scheduled[k].reservation_type = "soft"
          /\ DecisionFor(result.scheduled[k].project_id).decision
                = "APPROVED_WITH_CONDITIONS"
    /\ \E k \in DOMAIN result.scheduled :
          /\ result.scheduled[k].reservation_type = "hard"
          /\ DecisionFor(result.scheduled[k].project_id).confirmed_at # NULL

\* what the candidate list and the ledger alone determine: the projects in
\* effective-priority order, each put into the ledger the earlier ones left
ScheduleOf(calendar, projects) ==
    GreedyLoop(StableSort(projects, "effective_priority"),
               ScheduleRun(calendar, <<>>, <<>>, FALSE))

GreedyCall(call) == call.op = "schedule" /\ call.scheduler = "GreedyScheduler"

InputOf(project_id) ==
    ScheduleInput[CHOOSE i \in DOMAIN ScheduleInput :
                      ScheduleInput[i].project_id = project_id]

\* free crew in a week once the first k placed tasks are in the ledger
FreeAfter(tasks, k, resource_type, week) ==
    LET slot == resource_calendar[<<resource_type, week>>]
        placed == SubSeq(tasks, 1, k)
    IN  slot.capacity - slot.soft_allocated - slot.hard_allocated
          - ReservedBy(placed, resource_type, week, "soft")
          - ReservedBy(placed, resource_type, week, "hard")

\* the window of the project that starts in start_week fits at that time
FitsAfter(tasks, k, project, start_week) ==
    \A week \in start_week..(start_week + project.estimated_weeks - 1) :
        /\ week <= planning_horizon_weeks
        /\ FreeAfter(tasks, k, project.required_crew_type, week) >= project.crew_size

\* the tasks placed before the project's turn: those whose priority value is
\* lower, or equal with an earlier place in the input
TurnBefore(a, b) ==
    LET i == CHOOSE n \in DOMAIN ScheduleInput : ScheduleInput[n].project_id = a
        j == CHOOSE n \in DOMAIN ScheduleInput : ScheduleInput[n].project_id = b
        left == ScheduleInput[i].priority_rank
                   * (1000000 + 500 * ScheduleInput[j].urgency_score)
        right == ScheduleInput[j].priority_rank
                   * (1000000 + 500 * ScheduleInput[i].urgency_score)
    IN  left < right \/ (left = right /\ i < j)

PlacedBefore(tasks, project_id) ==
    Cardinality({k \in DOMAIN tasks : TurnBefore(tasks[k].project_id, project_id)})

\* C27: GreedyScheduler places each project at the smallest start week s in
\* 1..horizon-duration+1 such that every week s..s+duration-1 has available
\* capacity >= crew size at the time the project is processed; the task's
\* end_week is s+duration-1 <= horizon; when no such s exists the project is
\* reported infeasible and the ledger is not changed for it.
C27_EarliestFeasibleWindow ==
    [][(GreedyCall(result') /\ result'.ret = "ok")
       => LET tasks == result'.scheduled
          IN  /\ \A k \in DOMAIN tasks :
                    LET t == tasks[k]
                        p == InputOf(t.project_id)
                    IN  /\ t.start_week >= 1
                        /\ t.start_week <= planning_horizon_weeks - p.estimated_weeks + 1
                        /\ t.end_week = t.start_week + p.estimated_weeks - 1
                        /\ t.end_week <= planning_horizon_weeks
                        /\ FitsAfter(tasks, k - 1, p, t.start_week)
                        /\ \A s \in 1..(t.start_week - 1) :
                              ~ FitsAfter(tasks, k - 1, p, s)
              /\ \A n \in DOMAIN result'.infeasible :
                    LET p == InputOf(result'.infeasible[n])
                    IN  \A s \in 1..planning_horizon_weeks :
                           ~ FitsAfter(tasks, PlacedBefore(tasks, p.project_id), p, s)
              /\ \A i \in DOMAIN ScheduleInput :
                    Placements(result', ScheduleInput[i].project_id)
                      + Reports(result', ScheduleInput[i].project_id) = 1
              /\ \A slot \in DOMAIN resource_calendar :
                    resource_calendar'[slot].soft_allocated
                      + resource_calendar'[slot].hard_allocated
                    = resource_calendar[slot].soft_allocated
                        + resource_calendar[slot].hard_allocated
                        + ReservedBy(tasks, slot[1], slot[2], "soft")
                        + ReservedBy(tasks, slot[1], slot[2], "hard")]_vars

\* C27's case: on a ledger whose early weeks are taken the greedy scheduler
\* has placed one project in a later week and reported another infeasible
C27_LatePlacementAndInfeasible ==
    /\ GreedyCall(result)
    /\ \E k \in DOMAIN result.scheduled : result.scheduled[k].start_week > 1
    /\ result.infeasible # <<>>

\* rank / (1 + 0.5 * urgency) of one placed task against another's
LowerValue(a, b) ==
    a.priority_rank * (1000000 + 500 * b.urgency_score)
      < b.priority_rank * (1000000 + 500 * a.urgency_score)

\* b needs the crew a needs, as many of them and for as long
NeedsAtLeast(b, a) ==
    /\ b.required_crew_type = a.required_crew_type
    /\ b.crew_size >= a.crew_size
    /\ b.estimated_weeks >= a.estimated_weeks

RepairCall(call) ==
    /\ call.op = "schedule"
    /\ call.scheduler = "GreedyWithRepairScheduler"
    /\ call.ret = "ok"

\* p is a swap partner of the late task v: same crew type, ON_TRACK, an
\* earlier start and a strictly higher effective-priority number
SwapPartner(v, p) ==
    /\ p.resource_type = v.resource_type
    /\ p.deadline_status = "ON_TRACK"
    /\ p.start_week < v.start_week
    /\ LowerValue(v, p)

Covers(start_week, length, week) ==
    start_week <= week /\ week <= start_week + length - 1

\* v moved to p's start and p to v's start both fit the ledger from which
\* the two reservations were taken out
SwapKeepsFeasible(calendar, v, p) ==
    LET length_v == v.end_week - v.start_week + 1
        length_p == p.end_week - p.start_week + 1
    IN  /\ p.start_week + length_v - 1 <= planning_horizon_weeks
        /\ v.start_week + length_p - 1 <= planning_horizon_weeks
        /\ \A week \in 1..planning_horizon_weeks :
              LET slot == calendar[<<v.resource_type, week>>]
                  free == slot.capacity - slot.soft_allocated - slot.hard_allocated
                            + (IF Covers(v.start_week, length_v, week)
                               THEN v.crew_assigned ELSE 0)
                            + (IF Covers(p.start_week, length_p, week)
                               THEN p.crew_assigned ELSE 0)
              IN  (IF Covers(p.start_week, length_v, week)
                   THEN v.crew_assigned ELSE 0)
                    + (IF Covers(v.start_week, length_p, week)
                       THEN p.crew_assigned ELSE 0)
                    <= free

StartOf(tasks, project_id) ==
    {tasks[k].start_week : k \in {n \in DOMAIN tasks : tasks[n].project_id = project_id}}

NoSwapIsEverDue ==
    (GreedyCall(result) \/ RepairCall(result))
       => \A k \in DOMAIN result.scheduled, l \in DOMAIN result.scheduled :
             (/\ result.scheduled[k].deadline_status = "MISSED"
              /\ SwapPartner(result.scheduled[k], result.scheduled[l]))
                => ~ SwapKeepsFeasible(resource_calendar, result.scheduled[k],
                                       result.scheduled[l])

OptimalCall(call) ==
    /\ ScheduleCall(call)
    /\ call.scheduler = "CPSATScheduler"
    /\ call.solver_status = "OPTIMAL"

\* C30: the optimum chosen by CPSATScheduler always schedules the largest
\* number of projects that capacity allows: for every combination of
\* durations, deadline weeks and urgency scores, no chosen solution leaves
\* unscheduled a project that could be added without violating a capacity
\* constraint, however late that project would finish.
C30_OptimumSchedulesAllThatFit ==
    OptimalCall(result)
       => \A i \in DOMAIN ScheduleInput :
             Reports(result, ScheduleInput[i].project_id) > 0
                => ~ WindowIn(resource_calendar, ScheduleInput[i])

CPSATCall(call) == call.op = "schedule" /\ call.scheduler = "CPSATScheduler"

\* C31: in every solution CPSATScheduler returns, for every (resource type,
\* week) the crew sizes of the scheduled projects active in that week sum to
\* at most the capacity that was available in the ledger before the run,
\* every scheduled start lies in 1..horizon-duration+1, and a project whose
\* duration exceeds the horizon is never scheduled; the reservations of such
\* a solution are all accepted, so the call returns.
C31_SolutionWithinCapacity ==
    [][(CPSATCall(result') /\ result'.solver_status \in {"OPTIMAL", "FEASIBLE"})
       => /\ result'.ret = "ok"
          /\ \A slot \in DOMAIN resource_calendar :
                ReservedBy(result'.scheduled, slot[1], slot[2], "soft")
                  + ReservedBy(result'.scheduled, slot[1], slot[2], "hard")
                  <= get_available_capacity(resource_calendar, slot[1], slot[2])
          /\ \A k \in DOMAIN result'.scheduled :
                LET t == result'.scheduled[k]
                    p == InputOf(t.project_id)
                IN  /\ t.start_week >= 1
                    /\ t.start_week <= planning_horizon_weeks - p.estimated_weeks + 1
                    /\ t.end_week = t.start_week + p.estimated_weeks - 1
                    /\ t.crew_assigned = p.crew_size
                    /\ t.resource_type = p.required_crew_type
          /\ \A i \in DOMAIN ScheduleInput :
                ScheduleInput[i].estimated_weeks > planning_horizon_weeks
                   => /\ Placements(result', ScheduleInput[i].project_id) = 0
                      /\ Reports(result', ScheduleInput[i].project_id) = 1]_vars

\* C31's case: the solver's solution keeps a project out of a week that has
\* too few crews left and leaves out a project longer than the horizon
C31_KeptOutAndTooLong ==
    /\ CPSATCall(result)
    /\ result.ret = "ok"
    /\ \E k \in DOMAIN result.scheduled :
          LET t == result.scheduled[k]
          IN  /\ t.start_week > 1
              /\ get_available_capacity(resource_calendar, t.resource_type, 1)
                    < t.crew_assigned
    /\ \E n \in DOMAIN result.infeasible :
          InputOf(result.infeasible[n]).estimated_weeks > planning_horizon_weeks

NoSolution(call) ==
    CPSATCall(call) /\ call.solver_status \notin {"OPTIMAL", "FEASIBLE"}

\* C32: when the solver ends without an OPTIMAL or FEASIBLE solution (on its
\* time limit included), CPSATScheduler reports every input project as
\* infeasible, returns no task and leaves the ledger unchanged.
C32_NoSolutionAllInfeasible ==
    [][NoSolution(result')
       => /\ result'.ret = "ok"
          /\ result'.scheduled = <<>>
          /\ Len(result'.infeasible) = Len(ScheduleInput)
          /\ \A i \in DOMAIN ScheduleInput :
                result'.infeasible[i] = ScheduleInput[i].project_id
          /\ resource_calendar' = resource_calendar]_vars

\* C32's case: the solver stopped on its time limit with nothing found,
\* although the two projects it was given both have a free window
C32_TimeLimitWithFreeWindows ==
    /\ NoSolution(result)
    /\ result.solver_status = "UNKNOWN"
    /\ Len(result.infeasible) = 2
    /\ \A i \in DOMAIN ScheduleInput : WindowIn(resource_calendar, ScheduleInput[i])

\* C33: for every placed task with a deadline, slack_weeks = deadline_week -
\* end_week, the status is ON_TRACK iff slack_weeks >= 2, AT_RISK iff
\* slack_weeks is 0 or 1, MISSED iff slack_weeks < 0, and slack_days =
\* 7 x slack_weeks; GreedyScheduler and CPSATScheduler compute the same
\* status and slack for the same (end_week, deadline_week).
C33_StatusFollowsSlack ==
    result.op = "schedule"
       => \A k \in DOMAIN result.scheduled :
             LET t == result.scheduled[k]
                 slack_weeks == t.deadline_week - t.end_week
             IN  t.deadline_week # NULL
                    => /\ t.deadline_status = "ON_TRACK" <=> slack_weeks >= 2
                       /\ t.deadline_status = "AT_RISK" <=> slack_weeks \in {0, 1}
                       /\ t.deadline_status = "MISSED" <=> slack_weeks < 0
                       /\ t.slack_days = 7 * slack_weeks
                       /\ compute_deadline_status(t.end_week, t.deadline_week)
                             = CPSAT_deadline_status(t.end_week, t.deadline_week)

\* C33's case: the constraint scheduler returned one task that ends in its
\* deadline week and one that ends after it
C33_AtRiskAndMissedPlaced ==
    /\ CPSATCall(result)
    /\ \E k \in DOMAIN result.scheduled :
          /\ result.scheduled[k].deadline_status = "AT_RISK"
          /\ result.scheduled[k].slack_days = 0
    /\ \E k \in DOMAIN result.scheduled :
          /\ result.scheduled[k].deadline_status = "MISSED"
          /\ result.scheduled[k].slack_days < 0

\* ------------------------------------------------------------------------
\* Properties of the scorer (checked under SpecScore)
\* ------------------------------------------------------------------------
WeightTotal(weights) ==
    weights.safety + weights.mandate + weights.benefit + weights.urgency
      + weights.feasibility

\* C24: the scoring weights used by CompositeScorer (safety, mandate,
\* benefit, urgency, feasibility) sum to 1.0, and this is enforced when the
\* configuration is loaded: a scorer that was built holds weights of sum 1.0.
C24_WeightsSumToOne ==
    (result.op = "CompositeScorer" /\ result.ret = "ok")
       => WeightTotal(result.weights) = ScoreScale

\* C25: compute_equity_multiplier returns a multiplier in [0.875, 1.125] for
\* every district and every service ratio >= 0, ratio 0 and arbitrarily
\* large ratios included, and exactly 1.0 for a district with no known ratio.
C25_MultiplierInRange ==
    result.op = "compute_equity_multiplier"
       => /\ result.multiplier >= (7 * MultiplierScale) \div 8
          /\ result.multiplier <= (9 * MultiplierScale) \div 8
          /\ result.service_ratio = NULL => result.multiplier = MultiplierScale
          /\ result.service_ratio = 0
                => result.multiplier = (9 * MultiplierScale) \div 8

\* C25's case: a district served a thousand times its share got 0.875
C25_LargeRatioClamped ==
    /\ result.op = "compute_equity_multiplier"
    /\ result.service_ratio = 1000 * ScoreScale
    /\ result.multiplier = (7 * MultiplierScale) \div 8

\* ------------------------------------------------------------------------
\* Properties of interleaved runs (checked under SpecRace)
\* ------------------------------------------------------------------------
\* the write of a run that the database committed
CommittedWrite(process) ==
    /\ in_flight[process].pc = "write"
    /\ in_flight'[process] # in_flight[process]
    /\ in_flight'[process].pc # "raised"

RefusedWrite(process) ==
    /\ in_flight[process].pc = "write"
    /\ in_flight'[process].pc = "raised"

\* C26: when two scheduling runs, or a run and an expiry release, interleave
\* call by call on the same slots, no run commits a reservation in a week
\* whose available capacity, at the moment of the write, is below the crew
\* size: a committed write found at least the crew size free and added
\* exactly the crew size, a refused write changed nothing.
C26_NoWriteBelowCrewSize ==
    [][\A process \in Processes :
          LET run == in_flight[process]
              project == Head(run.projects)
              available ==
                  get_available_capacity(resource_calendar,
                      project.required_crew_type, run.week)
          IN  /\ CommittedWrite(process)
                   => /\ available >= project.crew_size
                      /\ get_available_capacity(resource_calendar',
                             project.required_crew_type, run.week)
                           = available - project.crew_size
              /\ RefusedWrite(process)
                   => /\ available < project.crew_size
                      /\ resource_calendar' = resource_calendar]_vars

\* C26's case: a run found the window free, the other run took it first, and
\* the write was refused
C26_WriteRefusedAfterRead ==
    \E process \in Processes, other \in Processes :
        /\ in_flight[process].pc = "raised"
        /\ other # process
        /\ in_flight[other].scheduled # <<>>
        /\ get_available_capacity(resource_calendar,
               Head(in_flight[process].projects).required_crew_type,
               in_flight[process].week)
             < Head(in_flight[process].projects).crew_size

\* C34: the equity tier recorded on a project candidate is the
\* classification of its district's service ratio: underserved iff ratio <
\* 0.6, well_served iff ratio > 1.4, otherwise average; it agrees with the
\* tier compute_equity_multiplier returns for that district.
C34_TierFollowsRatio ==
    (result.op = "create_project_candidate" /\ result.service_ratio # NULL)
       => LET candidate == project_candidates[result.project_id]
          IN  /\ candidate.equity_tier = "underserved"
                   <=> result.service_ratio < EQUITY_CONFIG.underserved_threshold
              /\ candidate.equity_tier = "well_served"
                   <=> result.service_ratio > EQUITY_CONFIG.overserved_threshold
              /\ candidate.equity_tier = result.equity_tier

\* C37: a scheduler's reservation of a multi-week window is all-or-nothing:
\* in every interleaving of two scheduling runs on the same ledger, when the
\* reservation of one week of a task's window fails, no reservation for the
\* other weeks of that window remains in the ledger and the project is not
\* reported as scheduled.
C37_FailedWindowLeavesNothing ==
    [][\A process \in Processes :
          LET run == in_flight[process]
              project == Head(run.projects)
          IN  RefusedWrite(process)
                 => /\ \A week \in run.start..(run.week - 1) :
                          get_available_capacity(resource_calendar',
                              project.required_crew_type, week)
                            = get_available_capacity(resource_calendar,
                                  project.required_crew_type, week)
                                + project.crew_size
                    /\ \A k \in DOMAIN in_flight'[process].scheduled :
                          in_flight'[process].scheduled[k].project_id
                             # project.project_id]_vars

\* ------------------------------------------------------------------------
\* Properties of the ledger against the task table (checked under Spec)
\* ------------------------------------------------------------------------
\* the crew the live tasks of one reservation type hold in a slot
RECURSIVE LiveCrew(_, _, _, _)
LiveCrew(tasks, resource_type, week, reservation_type) ==
    IF tasks = <<>> THEN 0
    ELSE LET t == Head(tasks)
         IN  (IF /\ t.status = "SCHEDULED"
                 /\ t.resource_type = resource_type
                 /\ t.reservation_type = reservation_type
                 /\ t.start_week <= week
                 /\ week <= t.end_week
              THEN t.crew_assigned ELSE 0)
             + LiveCrew(Tail(tasks), resource_type, week, reservation_type)

LedgerMatchesTasks(calendar, tasks) ==
    \A slot \in DOMAIN calendar :
        /\ calendar[slot].soft_allocated
             = LiveCrew(tasks, slot[1], slot[2], "soft")
        /\ calendar[slot].hard_allocated
             = LiveCrew(tasks, slot[1], slot[2], "hard")

SchedulingOps ==
    {"run_scheduler", "save_schedule", "confirm_project",
     "release_soft_reservations"}

\* C35: ledger and schedule stay consistent: run_scheduler, save_schedule,
\* confirm_project and the expiry release each take a state in which, for
\* every (resource type, week), soft_allocated is the total crew_assigned of
\* the live soft tasks covering the week and hard_allocated the same total
\* over the live hard tasks, to a state in which that still holds, so no
\* capacity is held by a reservation that has no task.
C35_LedgerMatchesTasks ==
    [][(/\ result'.op \in SchedulingOps
        /\ LedgerMatchesTasks(resource_calendar, schedule_tasks))
       => LedgerMatchesTasks(resource_calendar', schedule_tasks')]_vars

\* ------------------------------------------------------------------------
\* Properties of the decision table (checked under SpecGov)
\* ------------------------------------------------------------------------
DecisionRows(project_id) ==
    {i \in DOMAIN portfolio_decisions :
        portfolio_decisions[i].project_id = project_id}

ApprovedRows(project_id) ==
    LET projects == get_approved_projects(project_candidates, portfolio_decisions)
    IN  {i \in DOMAIN projects : projects[i].project_id = project_id}

\* C36: each project has at most one decision that counts: approve_project,
\* defer_project and reject_project on a project that already has a decision
\* do not create a second one, so a project's cost is counted at most once in
\* the allocated budget and the project appears at most once in the list
\* get_approved_projects hands to the scheduler.
C36_OneDecisionPerProject ==
    \A project_id \in DOMAIN project_candidates :
        /\ Cardinality(DecisionRows(project_id)) <= 1
        /\ Cardinality(ApprovedRows(project_id)) <= 1
        /\ Cardinality({i \in DecisionRows(project_id) :
                           Counted(portfolio_decisions[i])}) <= 1

\* ------------------------------------------------------------------------
\* Properties of repeated scheduling (checked under SpecRace)
\* ------------------------------------------------------------------------
\* the live tasks of one project
LiveTasks(project_id) ==
    {i \in DOMAIN schedule_tasks :
        /\ schedule_tasks[i].project_id = project_id
        /\ schedule_tasks[i].status = "SCHEDULED"}

\* the crew of one type the approved projects need when each is counted once
RECURSIVE CrewOnce(_, _)
CrewOnce(projects, resource_type) ==
    IF projects = <<>> THEN 0
    ELSE (IF Head(projects).required_crew_type = resource_type
          THEN Head(projects).crew_size ELSE 0)
         + CrewOnce(Tail(projects), resource_type)

\* C38: each approved project has at most one live schedule task: invoking
\* run_scheduler and save_schedule any number of times for the same approved
\* set never creates a second task for a project and never reserves that
\* project's crew more than once in any week.
C38_OneLiveTaskPerProject ==
    /\ \A project_id \in DOMAIN project_candidates :
          Cardinality(LiveTasks(project_id)) <= 1
    /\ \A slot \in DOMAIN resource_calendar :
          Allocated(resource_calendar[slot])
             <= CrewOnce(get_approved_projects(project_candidates,
                                               portfolio_decisions), slot[1])

\* ------------------------------------------------------------------------
\* Properties of confirmation against expiry (checked under SpecExpiry)
\* ------------------------------------------------------------------------
\* a project a human has confirmed
Confirmed(project_id) ==
    \E i \in DecisionsOf(project_id) :
        /\ portfolio_decisions[i].decision = "APPROVED"
        /\ portfolio_decisions[i].confirmed_at # NULL

\* a project whose soft reservations the expiry release has given back
ReservationsReleased(project_id) ==
    \E i \in DOMAIN schedule_tasks :
        /\ schedule_tasks[i].project_id = project_id
        /\ schedule_tasks[i].status = "EXPIRED"

\* C39: confirmation and expiry of one decision are mutually exclusive: once
\* a decision's confirmation deadline has passed, confirm_project(approved =
\* true) no longer turns it into APPROVED, and in no ordering of a confirm
\* and an expiry release does a project end up both confirmed and with its
\* reservations released.
C39_ConfirmOrExpireNotBoth ==
    [][/\ (result'.op = "confirm_project" /\ result'.approved)
            => \A i \in DecisionsOf(result'.project_id) :
                  Overdue(portfolio_decisions[i])
                     => portfolio_decisions'[i].decision # "APPROVED"
       /\ \A project_id \in DOMAIN project_candidates' :
             ~ (Confirmed(project_id) /\ ReservationsReleased(project_id))']_vars

====
